---- MODULE Spec2Model ----
(***************************************************************************)
(* Model of the apollo-next back-office client: the CPF/CNPJ check-digit   *)
(* validators, the zod schemas built on them (lib/validations), and the    *)
(* create/edit forms that run a schema and send the create/update request. *)
(*                                                                         *)
(* A JavaScript string is a sequence of one-character strings, so that     *)
(* replace(/\D/g, ""), charAt, substring and length are computed and not   *)
(* assumed.                                                                *)
(***************************************************************************)
EXTENDS Integers, Sequences, FiniteSets, TLC

VARIABLES
    arg,        \* checksum harness: the string handed to the validator
    ret,        \* checksum harness: [fn, value, via] of the last call, fn = "none" before
    page,       \* the create/edit page that is mounted ("none" in the harness)
    editId,     \* searchParams.get("id"): 0 when absent (isEditing = editId # 0)
    formData,   \* useState formData
    errors,     \* useState errors: field |-> message, for the fields that have one
    toast,      \* the last toast shown
    isSaving,   \* useState isSaving / isSubmitting
    isLoading,  \* useState isLoading / isLoadingProduto
    issues,     \* the issue list of the last validation run by handleSubmit
    pending,    \* the request handleSubmit or the fetch effect is awaiting
    route,      \* "form" while the page is shown, the list route after router.push
    edits,      \* number of field edits made so far
    logged,     \* console.error has been called by the duplicate check
    submitted,  \* the formData the last handleSubmit ran on (its closure's formData)
    currentPage,    \* list page: useState page (the table's currentPage)
    funcionarios,   \* list page: the rows shown, as the page they were fetched for
    totalPages,     \* list page: useState totalPages
    totalElements,  \* list page: useState totalElements
    error,          \* list page: useState error ("" for null)
    fetches,        \* the requests of the list and login pages that are in flight
    localStorage,   \* the keys the session store holds
    user,           \* useAuth: useState user
    hook,           \* which of the two useAuth hooks the build has
    efeitos         \* the effects of the mounted list page have not run yet

formVars == <<page, editId, formData, errors, toast, isSaving, isLoading, issues,
              pending, route, edits, logged, submitted>>

listaVars == <<currentPage, funcionarios, totalPages, totalElements, error, fetches,
               localStorage, user, hook, efeitos>>

vars == <<arg, ret, page, editId, formData, errors, toast, isSaving, isLoading, issues,
          pending, route, edits, logged, submitted, listaVars>>

\* no list page is mounted and no session exists
SemLinhas == [pagina |-> -1, vazia |-> TRUE]

UserNulo == [nulo |-> TRUE, lidas |-> {}]

SemLista ==
    /\ currentPage = 0
    /\ funcionarios = SemLinhas
    /\ totalPages = 0
    /\ totalElements = 0
    /\ error = ""
    /\ fetches = <<>>
    /\ localStorage = {}
    /\ user = UserNulo
    /\ hook = "none"
    /\ efeitos = FALSE

(***************************************************************************)
(* Characters                                                              *)
(***************************************************************************)
Digits == {"0", "1", "2", "3", "4", "5", "6", "7", "8", "9"}

DigitSeq == <<"0", "1", "2", "3", "4", "5", "6", "7", "8", "9">>

\* the separators of the usual CPF/CNPJ masks
Separators == {".", "-", "/"}

\* parseInt of a one-digit string
ParseDigit(c) == CHOOSE n \in 0..9 : DigitSeq[n + 1] = c

\* str.replace(/\D/g, "")
StripNonDigits(s) == SelectSeq(s, LAMBDA c : c \in Digits)

\* /^(\d)\1{n-1}$/.test(s): n characters, all the same digit
RepeatedDigit(s, n) ==
    /\ Len(s) = n
    /\ s[1] \in Digits
    /\ \A i \in 1..n : s[i] = s[1]

(***************************************************************************)
(* validarCPF                                                              *)
(***************************************************************************)
\* for (let i = 0; i < n; i++) soma += parseInt(cpfLimpo.charAt(i)) * (peso - i)
RECURSIVE CpfSoma(_, _, _, _)
CpfSoma(cpfLimpo, i, n, peso) ==
    IF i >= n THEN 0
    ELSE ParseDigit(cpfLimpo[i + 1]) * (peso - i) + CpfSoma(cpfLimpo, i + 1, n, peso)

\* a remainder rule that forgets to turn 10 into 0
CpfResto_NoWrap(soma) == (soma * 10) % 11

\* let resto = (soma * 10) % 11; if (resto === 10 || resto === 11) resto = 0
CpfResto(soma) ==
    LET resto == (soma * 10) % 11
    IN  IF resto = 10 \/ resto = 11 THEN 0 ELSE resto

\* a validator that rejects only the strings that are too short
validarCPF_ComprimentoMinimo(cpf) ==
    LET cpfLimpo == StripNonDigits(cpf)
    IN  IF Len(cpfLimpo) < 11 THEN FALSE
        ELSE IF RepeatedDigit(cpfLimpo, 11) THEN FALSE
        ELSE IF CpfResto(CpfSoma(cpfLimpo, 0, 9, 10)) # ParseDigit(cpfLimpo[10]) THEN FALSE
        ELSE IF CpfResto(CpfSoma(cpfLimpo, 0, 10, 11)) # ParseDigit(cpfLimpo[11]) THEN FALSE
        ELSE TRUE

\* a validator without the repeated-digit rejection
validarCPF_NoRepeatCheck(cpf) ==
    LET cpfLimpo == StripNonDigits(cpf)
    IN  IF Len(cpfLimpo) # 11 THEN FALSE
        ELSE IF CpfResto(CpfSoma(cpfLimpo, 0, 9, 10)) # ParseDigit(cpfLimpo[10]) THEN FALSE
        ELSE IF CpfResto(CpfSoma(cpfLimpo, 0, 10, 11)) # ParseDigit(cpfLimpo[11]) THEN FALSE
        ELSE TRUE

\* a validator that stops after the first check digit
validarCPF_FirstDigitOnly(cpf) ==
    LET cpfLimpo == StripNonDigits(cpf)
    IN  IF Len(cpfLimpo) # 11 THEN FALSE
        ELSE IF RepeatedDigit(cpfLimpo, 11) THEN FALSE
        ELSE IF CpfResto(CpfSoma(cpfLimpo, 0, 9, 10)) # ParseDigit(cpfLimpo[10]) THEN FALSE
        ELSE TRUE

validarCPF(cpf) ==
    LET cpfLimpo == StripNonDigits(cpf)
    IN  IF Len(cpfLimpo) # 11 THEN FALSE
        ELSE IF RepeatedDigit(cpfLimpo, 11) THEN FALSE
        ELSE IF CpfResto(CpfSoma(cpfLimpo, 0, 9, 10)) # ParseDigit(cpfLimpo[10]) THEN FALSE
        ELSE IF CpfResto(CpfSoma(cpfLimpo, 0, 10, 11)) # ParseDigit(cpfLimpo[11]) THEN FALSE
        ELSE TRUE

(***************************************************************************)
(* validarCNPJ                                                             *)
(***************************************************************************)
\* a weight cycle that wraps one step late (at pos < 1)
CnpjProximoPos_LateWrap(pos) == IF pos - 1 < 1 THEN 9 ELSE pos - 1

\* pos-- ; if (pos < 2) pos = 9
CnpjProximoPos(pos) == IF pos - 1 < 2 THEN 9 ELSE pos - 1

\* for (let i = tamanho; i >= 1; i--) {
\*   soma += parseInt(numeros.charAt(tamanho - i)) * pos-- ; if (pos < 2) pos = 9 }
RECURSIVE CnpjSoma(_, _, _, _)
CnpjSoma(numeros, tamanho, i, pos) ==
    IF i < 1 THEN 0
    ELSE ParseDigit(numeros[tamanho - i + 1]) * pos
         + CnpjSoma(numeros, tamanho, i - 1, CnpjProximoPos(pos))

\* soma % 11 < 2 ? 0 : 11 - (soma % 11)
CnpjResultado(soma) == IF soma % 11 < 2 THEN 0 ELSE 11 - (soma % 11)

\* the check digit of the first tamanho digits of cnpjLimpo
CnpjDigito(cnpjLimpo, tamanho) ==
    LET numeros == SubSeq(cnpjLimpo, 1, tamanho)
        pos     == tamanho - 7
    IN  CnpjResultado(CnpjSoma(numeros, tamanho, tamanho, pos))

\* a validator without the repeated-digit rejection
validarCNPJ_NoRepeatCheck(cnpj) ==
    LET cnpjLimpo == StripNonDigits(cnpj)
    IN  IF Len(cnpjLimpo) # 14 THEN FALSE
        ELSE IF CnpjDigito(cnpjLimpo, 12) # ParseDigit(cnpjLimpo[13]) THEN FALSE
        ELSE IF CnpjDigito(cnpjLimpo, 13) # ParseDigit(cnpjLimpo[14]) THEN FALSE
        ELSE TRUE

\* a validator that stops after the first check digit
validarCNPJ_FirstDigitOnly(cnpj) ==
    LET cnpjLimpo == StripNonDigits(cnpj)
    IN  IF Len(cnpjLimpo) # 14 THEN FALSE
        ELSE IF RepeatedDigit(cnpjLimpo, 14) THEN FALSE
        ELSE IF CnpjDigito(cnpjLimpo, 12) # ParseDigit(cnpjLimpo[13]) THEN FALSE
        ELSE TRUE

validarCNPJ(cnpj) ==
    LET cnpjLimpo == StripNonDigits(cnpj)
    IN  IF Len(cnpjLimpo) # 14 THEN FALSE
        ELSE IF RepeatedDigit(cnpjLimpo, 14) THEN FALSE
        ELSE IF CnpjDigito(cnpjLimpo, 12) # ParseDigit(cnpjLimpo[13]) THEN FALSE
        ELSE IF CnpjDigito(cnpjLimpo, 13) # ParseDigit(cnpjLimpo[14]) THEN FALSE
        ELSE TRUE

(***************************************************************************)
(* Reference identifiers and the display masks                             *)
(***************************************************************************)
\* the reference values of the specification
CpfReferencia == <<"5", "2", "9", "9", "8", "2", "2", "4", "7", "2", "5">>
CnpjReferencia == <<"1", "1", "4", "4", "4", "7", "7", "7", "0", "0", "0", "1", "6", "1">>

\* cleaned.replace(/(\d{3})(\d{3})(\d{3})(\d{2})/, "$1.$2.$3-$4")
MascaraCPF(s) ==
    SubSeq(s, 1, 3) \o <<".">> \o SubSeq(s, 4, 6) \o <<".">> \o SubSeq(s, 7, 9)
        \o <<"-">> \o SubSeq(s, 10, 11)

\* cleaned.replace(/(\d{2})(\d{3})(\d{3})(\d{4})(\d{2})/, "$1.$2.$3/$4-$5")
MascaraCNPJ(s) ==
    SubSeq(s, 1, 2) \o <<".">> \o SubSeq(s, 3, 5) \o <<".">> \o SubSeq(s, 6, 8)
        \o <<"/">> \o SubSeq(s, 9, 12) \o <<"-">> \o SubSeq(s, 13, 14)

\* n copies of the character d
RECURSIVE Repetir(_, _)
Repetir(d, n) == IF n = 0 THEN <<>> ELSE Append(Repetir(d, n - 1), d)

(***************************************************************************)
(* JavaScript numbers read from strings                                    *)
(***************************************************************************)
\* the longest prefix of s made of digits
RECURSIVE PrefixoDigitos(_)
PrefixoDigitos(s) ==
    IF s = <<>> \/ Head(s) \notin Digits THEN <<>>
    ELSE <<Head(s)>> \o PrefixoDigitos(Tail(s))

\* the number a digit string writes in base ten
RECURSIVE ValorDecimal(_)
ValorDecimal(d) ==
    IF d = <<>> THEN 0
    ELSE ValorDecimal(SubSeq(d, 1, Len(d) - 1)) * 10 + ParseDigit(d[Len(d)])

\* a number read from a string: num is its value (in hundredths, truncated,
\* for parseFloat) and sinal its exact sign
NaN == [nan |-> TRUE, num |-> 0, sinal |-> 0]

Num(n) == [nan |-> FALSE, num |-> n, sinal |-> IF n > 0 THEN 1 ELSE IF n < 0 THEN 0 - 1 ELSE 0]

\* parseInt(s) of a string without sign or blanks: the leading digits, NaN
\* when there is none
parseInt(s) ==
    LET d == PrefixoDigitos(s)
    IN  IF d = <<>> THEN NaN ELSE Num(ValorDecimal(d))

\* parseFloat(s): optional sign, digits, optional fraction; NaN when no digit
\* is read.  The value is kept in hundredths (two fraction digits); the sign
\* is that of the whole numeral.
parseFloat(s) ==
    LET neg   == s # <<>> /\ Head(s) = "-"
        body  == IF s # <<>> /\ Head(s) \in {"-", "+"} THEN Tail(s) ELSE s
        int   == PrefixoDigitos(body)
        rest  == SubSeq(body, Len(int) + 1, Len(body))
        frac  == IF rest # <<>> /\ Head(rest) = "." THEN PrefixoDigitos(Tail(rest)) ELSE <<>>
        frac2 == SubSeq(frac \o <<"0", "0">>, 1, 2)
        mag   == ValorDecimal(int) * 100 + ValorDecimal(frac2)
        zero  == \A i \in 1..Len(int \o frac) : (int \o frac)[i] = "0"
    IN  IF int = <<>> /\ frac = <<>> THEN NaN
        ELSE [nan   |-> FALSE,
              num   |-> IF neg THEN 0 - mag ELSE mag,
              sinal |-> IF zero THEN 0 ELSE IF neg THEN 0 - 1 ELSE 1]

\* x || 0 for a number x
OuZero(x) == IF x.nan \/ x.sinal = 0 THEN 0 ELSE x.num

(***************************************************************************)
(* zod: a parse result is the ordered issue list and the aborted status.   *)
(* A failed check of a string or number leaves the value dirty; a wrong    *)
(* type or enum value aborts.  An object runs every key in shape order and *)
(* is aborted when one key is; a refinement runs unless its inner parse    *)
(* aborted.                                                                *)
(***************************************************************************)
Issue(path, message) == [path |-> path, message |-> message]

ZOk == [issues |-> <<>>, aborted |-> FALSE]

ZDirty(path, message) == [issues |-> <<Issue(path, message)>>, aborted |-> FALSE]

ZAborted(path, message) == [issues |-> <<Issue(path, message)>>, aborted |-> TRUE]

\* the library's own messages
ZodRequired == "Required"
ZodInvalidEnum == "Invalid enum value"

\* z.string().min(n, message)
ZStringMin(v, n, path, message) ==
    IF Len(v) < n THEN ZDirty(path, message) ELSE ZOk

\* z.string().max(n, message).optional()
ZStringMaxOptional(v, n, path, message) ==
    IF Len(v) > n THEN ZDirty(path, message) ELSE ZOk

\* z.string().optional()
ZStringOptional(v) == ZOk

\* z.enum(options)
ZEnum(v, options, path) ==
    IF v \in options THEN ZOk
    ELSE IF v = "undefined" THEN ZAborted(path, ZodRequired)
    ELSE ZAborted(path, ZodInvalidEnum)

\* z.number().positive(message), on a number in hundredths
ZNumberPositive(n, path, message) ==
    IF n > 0 THEN ZOk ELSE ZDirty(path, message)

\* schema.refine(pass, { message, path })
ZRefine(inner, pass, path, message) ==
    IF inner.aborted THEN inner
    ELSE IF pass THEN inner
    ELSE [issues |-> Append(inner.issues, Issue(path, message)), aborted |-> FALSE]

\* z.object({...}): the results of the keys in shape order
RECURSIVE ZObject(_)
ZObject(results) ==
    IF results = <<>> THEN ZOk
    ELSE LET rest == ZObject(Tail(results))
         IN  [issues  |-> Head(results).issues \o rest.issues,
              aborted |-> Head(results).aborted \/ rest.aborted]

\* schema.safeParse(data)
safeParse(result) == [success |-> result.issues = <<>>, issues |-> result.issues]

(***************************************************************************)
(* lib/validations: the schemas                                            *)
(***************************************************************************)
TiposPessoa == {"FISICA", "JURIDICA"}

Generos == {"MASCULINO", "FEMININO", "NAO_INFORMAR"}

\* a refinement that reads the identifier kind from the number of digits
RefinamentoCpfCnpj_PorComprimento(data) ==
    LET cpfCnpjLimpo == StripNonDigits(data.cpfcnpj)
    IN  IF Len(cpfCnpjLimpo) = 11 THEN validarCPF(cpfCnpjLimpo)
        ELSE IF Len(cpfCnpjLimpo) = 14 THEN validarCNPJ(cpfCnpjLimpo)
        ELSE FALSE

\* the refinement of clienteSchema and fornecedorSchema
RefinamentoCpfCnpj(data) ==
    LET cpfCnpjLimpo == StripNonDigits(data.cpfcnpj)
    IN  IF data.tipoPessoa = "FISICA"
        THEN IF Len(cpfCnpjLimpo) # 11 THEN FALSE ELSE validarCPF(cpfCnpjLimpo)
        ELSE IF data.tipoPessoa = "JURIDICA"
        THEN IF Len(cpfCnpjLimpo) # 14 THEN FALSE ELSE validarCNPJ(cpfCnpjLimpo)
        ELSE TRUE

clienteSchema(data) ==
    ZRefine(
        ZObject(<<
            ZStringMin(data.nome, 1, "nome", "Nome é obrigatório"),
            ZEnum(data.tipoPessoa, TiposPessoa, "tipoPessoa"),
            ZStringMin(data.cpfcnpj, 1, "cpfcnpj", "CPF/CNPJ é obrigatório"),
            ZStringOptional(data.ie),
            ZStringOptional(data.email),
            ZStringOptional(data.telefone),
            ZEnum(data.genero, Generos, "genero"),
            ZStringOptional(data.endereco),
            ZStringOptional(data.bairro),
            ZStringOptional(data.cidade),
            ZStringMaxOptional(data.uf, 2, "uf", "UF deve ter no máximo 2 caracteres"),
            ZStringOptional(data.cep) >>),
        RefinamentoCpfCnpj(data), "cpfcnpj", "CPF/CNPJ inválido")

fornecedorSchema(data) ==
    ZRefine(
        ZObject(<<
            ZStringMin(data.nome, 1, "nome", "Nome é obrigatório"),
            ZEnum(data.tipoPessoa, TiposPessoa, "tipoPessoa"),
            ZStringMin(data.cpfcnpj, 1, "cpfcnpj", "CPF/CNPJ é obrigatório"),
            ZStringOptional(data.ie),
            ZStringOptional(data.email),
            ZStringOptional(data.telefone),
            ZStringMin(data.tipoFornecedor, 1, "tipoFornecedor",
                       "O tipo de fornecedor é obrigatório"),
            ZStringOptional(data.endereco),
            ZStringOptional(data.bairro),
            ZStringOptional(data.cidade),
            ZStringMaxOptional(data.uf, 2, "uf", "UF deve ter no máximo 2 caracteres"),
            ZStringOptional(data.cep) >>),
        RefinamentoCpfCnpj(data), "cpfcnpj", "CPF/CNPJ inválido")

\* a salary refinement that lets zero through
SalarioValido_NaoNegativo(val) ==
    LET num == parseFloat(val)
    IN  ~num.nan /\ num.sinal >= 0

\* the refinement of salario
SalarioValido(val) ==
    LET num == parseFloat(val)
    IN  ~num.nan /\ num.sinal > 0

\* /^(\d{2})\/(\d{2})\/(\d{4})$/.test(val)
DataRegex(val) ==
    /\ Len(val) = 10
    /\ \A i \in {1, 2, 4, 5, 7, 8, 9, 10} : val[i] \in Digits
    /\ val[3] = "/"
    /\ val[6] = "/"

\* a date refinement that stops at day 30
DataAdmissaoValida_Dia30(val) ==
    IF ~DataRegex(val) THEN FALSE
    ELSE LET diaNum == parseInt(SubSeq(val, 1, 2)).num
             mesNum == parseInt(SubSeq(val, 4, 5)).num
             anoNum == parseInt(SubSeq(val, 7, 10)).num
         IN  IF mesNum < 1 \/ mesNum > 12 THEN FALSE
             ELSE IF diaNum < 1 \/ diaNum > 30 THEN FALSE
             ELSE IF anoNum < 1900 \/ anoNum > 2100 THEN FALSE
             ELSE TRUE

\* the refinement of dataAdmissao
DataAdmissaoValida(val) ==
    IF ~DataRegex(val) THEN FALSE
    ELSE LET diaNum == parseInt(SubSeq(val, 1, 2)).num
             mesNum == parseInt(SubSeq(val, 4, 5)).num
             anoNum == parseInt(SubSeq(val, 7, 10)).num
         IN  IF mesNum < 1 \/ mesNum > 12 THEN FALSE
             ELSE IF diaNum < 1 \/ diaNum > 31 THEN FALSE
             ELSE IF anoNum < 1900 \/ anoNum > 2100 THEN FALSE
             ELSE TRUE

\* the refinement of funcionarioSchema
RefinamentoCpf(data) ==
    LET cpfLimpo == StripNonDigits(data.cpfcnpj)
    IN  IF Len(cpfLimpo) # 11 THEN FALSE ELSE validarCPF(cpfLimpo)

funcionarioSchema(data) ==
    ZRefine(
        ZObject(<<
            ZStringMin(data.nome, 1, "nome", "Nome é obrigatório"),
            ZStringMin(data.cpfcnpj, 1, "cpfcnpj", "CPF é obrigatório"),
            ZStringOptional(data.email),
            ZStringOptional(data.telefone),
            ZStringOptional(data.endereco),
            ZStringOptional(data.bairro),
            ZStringOptional(data.cidade),
            ZStringMaxOptional(data.uf, 2, "uf", "UF deve ter no máximo 2 caracteres"),
            ZStringOptional(data.cep),
            ZStringMin(data.cargo, 1, "cargo", "Cargo é obrigatório"),
            ZRefine(ZStringMin(data.salario, 1, "salario", "Salário é obrigatório"),
                    SalarioValido(data.salario),
                    "salario", "Salário deve ser maior que zero"),
            ZRefine(ZStringMin(data.dataAdmissao, 1, "dataAdmissao",
                               "Data de admissão é obrigatória"),
                    DataAdmissaoValida(data.dataAdmissao),
                    "dataAdmissao", "Data inválida. Use o formato dd/mm/yyyy") >>),
        RefinamentoCpf(data), "cpfcnpj", "CPF inválido")

\* a price refinement that demands a strictly greater sale price
RefinamentoPreco_Estrito(data) == data.precoVenda > data.precoCusto

\* the refinement of produtoSchema
RefinamentoPreco(data) == data.precoVenda >= data.precoCusto

produtoSchema(data) ==
    ZRefine(
        ZObject(<<
            ZStringMin(data.nome, 1, "nome", "Nome é obrigatório"),
            ZStringMin(data.descricao, 1, "descricao", "Descrição é obrigatória"),
            ZNumberPositive(data.precoCusto, "precoCusto",
                            "Preço de custo deve ser maior que zero"),
            ZNumberPositive(data.precoVenda, "precoVenda",
                            "Preço de venda deve ser maior que zero") >>),
        RefinamentoPreco(data), "precoVenda",
        "Preço de venda não pode ser menor que o preço de custo")

(***************************************************************************)
(* Sample texts typed into the forms or stored by the backend              *)
(***************************************************************************)
Vazio == <<>>
TxtAna == <<"A", "n", "a">>
TxtIe == <<"1", "2", "3">>
TxtEmail == <<"a", "@", "b", ".", "c">>
TxtTelefone == <<"(", "1", "1", ")", " ", "4", "0", "0", "2", "-", "8", "9", "2", "2">>
TxtRua == <<"R", "u", "a", " ", "A">>
TxtCentro == <<"C", "e", "n", "t", "r", "o">>
TxtCidade == <<"N", "a", "t", "a", "l">>
TxtSP == <<"S", "P">>
TxtUfLonga == <<"S", "P", "X">>
TxtCep == <<"0", "1", "0", "0", "1", "-", "0", "0", "0">>
TxtAtacado == <<"A", "t", "a", "c", "a", "d", "o">>
TxtCargo == <<"C", "a", "i", "x", "a">>
TxtSemFio == <<"S", "e", "m", " ", "f", "i", "o">>

CpfMascarado == MascaraCPF(CpfReferencia)
CnpjMascarado == MascaraCNPJ(CnpjReferencia)
CpfCorrompido == [CpfReferencia EXCEPT ![11] = "6"]
CnpjCorrompido == [CnpjReferencia EXCEPT ![14] = "2"]

AmostrasCpfCnpj ==
    { Vazio, CpfReferencia, CpfMascarado, CpfCorrompido, CnpjReferencia, CnpjMascarado,
      CnpjCorrompido }

AmostrasSalario == { Vazio, <<"0">>, <<"2", "5", "0", "0", ".", "5", "0">>, <<"a", "b", "c">> }

\* what the user types in the date field, before formatarDataParaInput
AmostrasDataDigitada ==
    { Vazio, <<"1", "5", "0", "3", "2", "0", "2", "4">>, <<"3", "1", "0", "2", "2", "0", "2", "4">>,
      <<"3", "2", "0", "1", "2", "0", "2", "4">>,
      <<"0", "1", "0", "1", "1", "8", "9", "9">>, <<"1", "5", "0", "3">> }

\* what the user types in a price field
AmostrasPreco == { Vazio, <<"1", "0">>, <<"1", "0", ".", "0", "0">>, <<"9", ".", "9", "9">>, <<"0">>, <<"-", "5">> }

\* the sample values of a text field
AmostrasTexto(field) ==
    CASE field = "nome"           -> { Vazio, TxtAna }
      [] field = "cpfcnpj"        -> AmostrasCpfCnpj
      [] field = "ie"             -> { Vazio, TxtIe }
      [] field = "email"          -> { Vazio, TxtEmail }
      [] field = "telefone"       -> { Vazio, TxtTelefone }
      [] field = "endereco"       -> { Vazio }
      [] field = "bairro"         -> { Vazio }
      [] field = "cidade"         -> { Vazio }
      [] field = "uf"             -> { Vazio, TxtSP }
      [] field = "cep"            -> { Vazio, TxtCep }
      [] field = "tipoFornecedor" -> { Vazio, TxtAtacado }
      [] field = "cargo"          -> { Vazio, TxtCargo }
      [] field = "salario"        -> AmostrasSalario
      [] field = "descricao"      -> { Vazio, TxtSemFio }
      [] field = "tipoPessoa"     -> TiposPessoa
      [] field = "genero"         -> Generos \cup {"undefined"}
      [] OTHER                    -> {}

(***************************************************************************)
(* The create/edit pages                                                   *)
(***************************************************************************)
\* the zod-validated pages and the two earlier pages with inline validation
Pages ==
    { "clientes", "fornecedores", "funcionarios", "produtos",
      "clientesLegado", "funcionariosLegado" }

PaginasZod == { "clientes", "fornecedores", "funcionarios", "produtos" }

\* bound: field edits in one session of a form
MaxEdits == 2

\* the list route of a page
RotaLista(p) ==
    CASE p \in {"clientes", "clientesLegado"}         -> "/clientes"
      [] p = "fornecedores"                           -> "/fornecedores"
      [] p \in {"funcionarios", "funcionariosLegado"} -> "/funcionarios"
      [] OTHER                                        -> "/produtos"

\* useState<...FormData>({...}): the initial form of each page
FormDataInicial(p) ==
    CASE p = "clientes" ->
            [nome |-> Vazio, tipoPessoa |-> "FISICA", cpfcnpj |-> Vazio, ie |-> Vazio,
             email |-> Vazio, telefone |-> Vazio, endereco |-> Vazio, bairro |-> Vazio,
             cidade |-> Vazio, uf |-> Vazio, cep |-> Vazio, genero |-> "NAO_INFORMAR"]
      [] p = "clientesLegado" ->
            [nome |-> Vazio, tipoPessoa |-> "FISICA", cpfcnpj |-> Vazio, ie |-> Vazio,
             email |-> Vazio, telefone |-> Vazio, endereco |-> Vazio, bairro |-> Vazio,
             cidade |-> Vazio, uf |-> Vazio, cep |-> Vazio, genero |-> ""]
      [] p = "fornecedores" ->
            [nome |-> Vazio, tipoPessoa |-> "JURIDICA", cpfcnpj |-> Vazio, ie |-> Vazio,
             email |-> Vazio, telefone |-> Vazio, endereco |-> Vazio, bairro |-> Vazio,
             cidade |-> Vazio, uf |-> Vazio, cep |-> Vazio, tipoFornecedor |-> Vazio]
      [] p = "funcionarios" ->
            [nome |-> Vazio, cpfcnpj |-> Vazio, email |-> Vazio, telefone |-> Vazio,
             endereco |-> Vazio, bairro |-> Vazio, cidade |-> Vazio, uf |-> Vazio,
             cep |-> Vazio, dataAdmissao |-> Vazio, cargo |-> Vazio, salario |-> Vazio]
      [] p = "funcionariosLegado" ->
            [nome |-> Vazio, tipoPessoa |-> "FISICA", cpfcnpj |-> Vazio, ie |-> Vazio,
             email |-> Vazio, telefone |-> Vazio, endereco |-> Vazio, bairro |-> Vazio,
             cidade |-> Vazio, uf |-> Vazio, cep |-> Vazio, dataAdmissao |-> Vazio,
             cargo |-> Vazio, salario |-> Vazio]
      [] OTHER ->
            [nome |-> Vazio, descricao |-> Vazio, precoCusto |-> 0, precoVenda |-> 0]

\* the fields that have an input bound to handleInputChange
CamposEditaveis(p) ==
    CASE p \in {"clientes", "clientesLegado"} ->
            {"nome", "tipoPessoa", "cpfcnpj", "ie", "genero", "email", "telefone",
             "endereco", "bairro", "cidade", "uf", "cep"}
      [] p = "fornecedores" ->
            {"nome", "tipoPessoa", "cpfcnpj", "ie", "tipoFornecedor", "email", "telefone",
             "endereco", "bairro", "cidade", "uf", "cep"}
      [] p \in {"funcionarios", "funcionariosLegado"} ->
            {"nome", "cpfcnpj", "cargo", "salario", "email", "telefone", "endereco",
             "bairro", "cidade", "uf", "cep"}
      [] OTHER -> {}

TodosCampos ==
    {"nome", "tipoPessoa", "cpfcnpj", "ie", "genero", "tipoFornecedor", "cargo", "salario",
     "email", "telefone", "endereco", "bairro", "cidade", "uf", "cep"}

(***************************************************************************)
(* Records of the backend and their conversion by the fetch effects        *)
(***************************************************************************)
\* a number or a date the backend left null
NumNulo == 0 - 1
DataNula == [dia |-> 0, mes |-> 0, ano |-> 0]

\* the people the backend stores (a null text is the empty text)
PessoaFisica ==
    [id |-> 1, nome |-> TxtAna, tipoPessoa |-> "FISICA", cpfCnpj |-> CpfReferencia,
     ie |-> Vazio, email |-> TxtEmail, telefone |-> 1140028922, endereco |-> TxtRua,
     bairro |-> TxtCentro, cidade |-> TxtCidade, uf |-> TxtSP, cep |-> 59000000,
     genero |-> "FEMININO", tipoFornecedor |-> TxtAtacado,
     dataAdmissao |-> [dia |-> 5, mes |-> 3, ano |-> 2024], cargo |-> TxtCargo,
     salario |-> 250050]

PessoaJuridica ==
    [id |-> 2, nome |-> TxtAna, tipoPessoa |-> "JURIDICA", cpfCnpj |-> CnpjReferencia,
     ie |-> TxtIe, email |-> TxtEmail, telefone |-> NumNulo, endereco |-> Vazio,
     bairro |-> Vazio, cidade |-> Vazio, uf |-> Vazio, cep |-> NumNulo,
     genero |-> "", tipoFornecedor |-> TxtAtacado,
     dataAdmissao |-> [dia |-> 31, mes |-> 12, ano |-> 2023], cargo |-> TxtCargo,
     salario |-> 300000]

PessoaIncompleta ==
    [id |-> 3, nome |-> Vazio, tipoPessoa |-> "", cpfCnpj |-> CpfMascarado,
     ie |-> Vazio, email |-> Vazio, telefone |-> 0, endereco |-> Vazio,
     bairro |-> Vazio, cidade |-> Vazio, uf |-> TxtUfLonga, cep |-> 0,
     genero |-> "", tipoFornecedor |-> Vazio,
     dataAdmissao |-> DataNula, cargo |-> Vazio, salario |-> NumNulo]

Pessoas == { PessoaFisica, PessoaJuridica, PessoaIncompleta }

\* the products the backend stores, prices in hundredths
Produtos ==
    { [id |-> 1, nome |-> TxtAna, descricao |-> TxtSemFio, precoCusto |-> 1000, precoVenda |-> 1500],
      [id |-> 2, nome |-> TxtAna, descricao |-> TxtSemFio, precoCusto |-> 1000, precoVenda |-> 1000],
      [id |-> 3, nome |-> TxtAna, descricao |-> TxtSemFio, precoCusto |-> 1000, precoVenda |-> 999] }

Armazenados(p) == IF p = "produtos" THEN Produtos ELSE Pessoas

Ids == { 1, 2, 3 }

\* Number.prototype.toString of a non-negative integer
RECURSIVE NumeroParaTexto(_)
NumeroParaTexto(n) ==
    IF n < 10 THEN <<DigitSeq[n + 1]>>
    ELSE Append(NumeroParaTexto(n \div 10), DigitSeq[(n % 10) + 1])

\* x?.toString() || "" for a number x
NumeroOuVazio(n) == IF n = NumNulo THEN Vazio ELSE NumeroParaTexto(n)

\* toString of a number kept in hundredths: no trailing zero in the fraction
CentavosParaTexto(c) ==
    LET int  == NumeroParaTexto(c \div 100)
        frac == c % 100
    IN  IF c = NumNulo THEN Vazio
        ELSE IF frac = 0 THEN int
        ELSE IF frac % 10 = 0 THEN int \o <<".", DigitSeq[(frac \div 10) + 1]>>
        ELSE int \o <<".", DigitSeq[(frac \div 10) + 1], DigitSeq[(frac % 10) + 1]>>

\* String(n).padStart(2, '0')
PadStart2(n) == IF n < 10 THEN <<"0">> \o NumeroParaTexto(n) ELSE NumeroParaTexto(n)

\* `${dia}/${mes}/${ano}` of the stored date, "" when the record has none
DataFormatada(d) ==
    IF d = DataNula THEN Vazio
    ELSE PadStart2(d.dia) \o <<"/">> \o PadStart2(d.mes) \o <<"/">> \o NumeroParaTexto(d.ano)

\* setFormData({...}) of the fetch effect of each page
FormDataDoRegistro(p, r) ==
    CASE p = "clientes" ->
            [nome |-> r.nome, tipoPessoa |-> IF r.tipoPessoa = "" THEN "FISICA" ELSE r.tipoPessoa,
             cpfcnpj |-> r.cpfCnpj, ie |-> r.ie, email |-> r.email,
             telefone |-> NumeroOuVazio(r.telefone), endereco |-> r.endereco,
             bairro |-> r.bairro, cidade |-> r.cidade, uf |-> r.uf,
             cep |-> NumeroOuVazio(r.cep),
             genero |-> IF r.genero = "" THEN "undefined" ELSE r.genero]
      [] p = "clientesLegado" ->
            [nome |-> r.nome, tipoPessoa |-> IF r.tipoPessoa = "" THEN "FISICA" ELSE r.tipoPessoa,
             cpfcnpj |-> r.cpfCnpj, ie |-> r.ie, email |-> r.email,
             telefone |-> NumeroOuVazio(r.telefone), endereco |-> r.endereco,
             bairro |-> r.bairro, cidade |-> r.cidade, uf |-> r.uf,
             cep |-> NumeroOuVazio(r.cep), genero |-> r.genero]
      [] p = "fornecedores" ->
            [nome |-> r.nome, tipoPessoa |-> IF r.tipoPessoa = "" THEN "JURIDICA" ELSE r.tipoPessoa,
             cpfcnpj |-> r.cpfCnpj, ie |-> r.ie, email |-> r.email,
             telefone |-> NumeroOuVazio(r.telefone), endereco |-> r.endereco,
             bairro |-> r.bairro, cidade |-> r.cidade, uf |-> r.uf,
             cep |-> NumeroOuVazio(r.cep), tipoFornecedor |-> r.tipoFornecedor]
      [] p = "funcionarios" ->
            [nome |-> r.nome, cpfcnpj |-> r.cpfCnpj, email |-> r.email,
             telefone |-> NumeroOuVazio(r.telefone), endereco |-> r.endereco,
             bairro |-> r.bairro, cidade |-> r.cidade, uf |-> r.uf,
             cep |-> NumeroOuVazio(r.cep), dataAdmissao |-> DataFormatada(r.dataAdmissao),
             cargo |-> r.cargo, salario |-> CentavosParaTexto(r.salario)]
      [] p = "funcionariosLegado" ->
            [nome |-> r.nome, tipoPessoa |-> IF r.tipoPessoa = "" THEN "FISICA" ELSE r.tipoPessoa,
             cpfcnpj |-> r.cpfCnpj, ie |-> r.ie, email |-> r.email,
             telefone |-> NumeroOuVazio(r.telefone), endereco |-> r.endereco,
             bairro |-> r.bairro, cidade |-> r.cidade, uf |-> r.uf,
             cep |-> NumeroOuVazio(r.cep), dataAdmissao |-> DataFormatada(r.dataAdmissao),
             cargo |-> r.cargo, salario |-> CentavosParaTexto(r.salario)]
      [] OTHER ->
            [nome |-> r.nome, descricao |-> r.descricao, precoCusto |-> r.precoCusto,
             precoVenda |-> r.precoVenda]

(***************************************************************************)
(* handleSubmit: validation                                                *)
(***************************************************************************)
\* the schema each zod page hands formData to
Schema(p, data) ==
    CASE p = "clientes"     -> clienteSchema(data)
      [] p = "fornecedores" -> fornecedorSchema(data)
      [] p = "funcionarios" -> funcionarioSchema(data)
      [] OTHER              -> produtoSchema(data)

\* an inline check of the earlier pages: a message and no field
Recusa(message) == <<Issue("", message)>>

\* the inline validation of the earlier customer page
ValidarClienteLegado(data) ==
    LET cpfCnpjLimpo == StripNonDigits(data.cpfcnpj)
    IN  IF data.nome = Vazio \/ data.cpfcnpj = Vazio \/ data.email = Vazio
        THEN Recusa("Preencha todos os campos obrigatórios")
        ELSE IF data.tipoPessoa = "FISICA" /\ Len(cpfCnpjLimpo) # 11
        THEN Recusa("CPF deve ter 11 dígitos")
        ELSE IF data.tipoPessoa = "FISICA" /\ ~validarCPF(cpfCnpjLimpo)
        THEN Recusa("CPF inválido. Verifique os dígitos informados.")
        ELSE IF data.tipoPessoa = "JURIDICA" /\ Len(cpfCnpjLimpo) # 14
        THEN Recusa("CNPJ deve ter 14 dígitos")
        ELSE IF data.tipoPessoa = "JURIDICA" /\ ~validarCNPJ(cpfCnpjLimpo)
        THEN Recusa("CNPJ inválido. Verifique os dígitos informados.")
        ELSE <<>>

\* the inline validation of the earlier employee page
ValidarFuncionarioLegado(data) ==
    LET cpfLimpo == StripNonDigits(data.cpfcnpj)
    IN  IF \/ data.nome = Vazio \/ data.cpfcnpj = Vazio \/ data.email = Vazio
           \/ data.cargo = Vazio \/ data.dataAdmissao = Vazio \/ data.salario = Vazio
        THEN Recusa("Preencha todos os campos obrigatórios")
        ELSE IF data.tipoPessoa = "FISICA" /\ Len(cpfLimpo) # 11
        THEN Recusa("CPF deve ter 11 dígitos")
        ELSE IF data.tipoPessoa = "FISICA" /\ ~validarCPF(cpfLimpo)
        THEN Recusa("CPF inválido. Verifique os dígitos informados.")
        ELSE <<>>

\* the issue list handleSubmit of page p computes from formData
\* a validation that keeps the issues of the run before
Validar_Acumula(p, data) ==
    issues \o (CASE p = "clientesLegado"     -> ValidarClienteLegado(data)
                 [] p = "funcionariosLegado" -> ValidarFuncionarioLegado(data)
                 [] OTHER                    -> safeParse(Schema(p, data)).issues)

Validar(p, data) ==
    CASE p = "clientesLegado"     -> ValidarClienteLegado(data)
      [] p = "funcionariosLegado" -> ValidarFuncionarioLegado(data)
      [] OTHER                    -> safeParse(Schema(p, data)).issues

\* result.error.issues.forEach(issue => { if (issue.path[0]) fieldErrors[path] = message })
RECURSIVE FieldErrors(_, _)
FieldErrors(iss, acc) ==
    IF iss = <<>> THEN acc
    ELSE LET i == Head(iss)
         IN  FieldErrors(Tail(iss),
                 IF i.path = "" THEN acc
                 ELSE [f \in DOMAIN acc \cup {i.path} |->
                          IF f = i.path THEN i.message ELSE acc[f]])

\* {} as a field-error mapping
SemErros == [f \in {} |-> ""]

\* delete newErrors[field]
SemCampo(errs, field) == [f \in DOMAIN errs \ {field} |-> errs[f]]

(***************************************************************************)
(* handleSubmit: the payload                                               *)
(***************************************************************************)
\* JavaScript null, as a text and as an enumerated value
Nulo == <<"null">>

\* text || null
TextoOuNulo(t) == IF t = Vazio THEN Nulo ELSE t

\* parseInt(text?.replace(/\D/g, "") || "0") || 0
InteiroOuZero(t) ==
    LET limpo == StripNonDigits(t)
    IN  OuZero(parseInt(IF limpo = Vazio THEN <<"0">> ELSE limpo))

\* parseInt(text.replace(/\D/g, "")) || 0
InteiroOuZeroLegado(t) == OuZero(parseInt(StripNonDigits(t)))

BISSEXTO(ano) == (ano % 4 = 0 /\ ano % 100 # 0) \/ ano % 400 = 0

DiasNoMes(mes, ano) ==
    IF mes = 2 THEN (IF BISSEXTO(ano) THEN 29 ELSE 28)
    ELSE IF mes \in {4, 6, 9, 11} THEN 30 ELSE 31

\* new Date().toISOString(): the current instant
Agora == [tipo |-> "agora", dia |-> 0, mes |-> 0, ano |-> 0]

\* new Date(`${ano}-${mes}-${dia}T00:00:00`).toISOString() for the text of the
\* date field: the calendar date sent, or "RangeError" when the Date is invalid.
\* A day that the month does not have (31/02) is rolled into the next month by
\* some engines and is an invalid Date in others: both outcomes are possible.
\* The date is kept as the local calendar date.
DataISOResultados(val) ==
    IF Len(val) # 10 \/ ~DataRegex(val) THEN { Agora }
    ELSE LET dia == parseInt(SubSeq(val, 1, 2)).num
             mes == parseInt(SubSeq(val, 4, 5)).num
             ano == parseInt(SubSeq(val, 7, 10)).num
         IN  IF mes < 1 \/ mes > 12 \/ dia < 1 \/ dia > 31
             THEN { [tipo |-> "RangeError", dia |-> 0, mes |-> 0, ano |-> 0] }
             ELSE IF dia <= DiasNoMes(mes, ano)
             THEN { [tipo |-> "data", dia |-> dia, mes |-> mes, ano |-> ano] }
             ELSE { [tipo |-> "data", dia |-> dia - DiasNoMes(mes, ano),
                     mes |-> mes + 1, ano |-> ano],
                    [tipo |-> "RangeError", dia |-> 0, mes |-> 0, ano |-> 0] }

\* the payload of the employee page
PayloadFuncionario(data, iso) ==
    [nome |-> data.nome, tipoPessoa |-> "FISICA", cpfcnpj |-> StripNonDigits(data.cpfcnpj),
     ie |-> Nulo, email |-> data.email, telefone |-> InteiroOuZero(data.telefone),
     endereco |-> data.endereco, bairro |-> data.bairro, cidade |-> data.cidade,
     uf |-> data.uf, cep |-> InteiroOuZero(data.cep), dataAdmissao |-> iso,
     cargo |-> data.cargo, salario |-> OuZero(parseFloat(data.salario))]

\* the payload of the earlier employee page
PayloadFuncionarioLegado(data, iso) ==
    [nome |-> data.nome, tipoPessoa |-> data.tipoPessoa,
     cpfcnpj |-> StripNonDigits(data.cpfcnpj), ie |-> TextoOuNulo(data.ie),
     email |-> data.email, telefone |-> InteiroOuZeroLegado(data.telefone),
     endereco |-> data.endereco, bairro |-> data.bairro, cidade |-> data.cidade,
     uf |-> data.uf, cep |-> InteiroOuZeroLegado(data.cep), dataAdmissao |-> iso,
     cargo |-> data.cargo, salario |-> OuZero(parseFloat(data.salario))]

\* the payload of the customer pages
PayloadCliente(p, data) ==
    [nome |-> data.nome, tipoPessoa |-> data.tipoPessoa,
     cpfcnpj |-> StripNonDigits(data.cpfcnpj), ie |-> TextoOuNulo(data.ie),
     email |-> data.email,
     telefone |-> IF p = "clientes" THEN InteiroOuZero(data.telefone)
                  ELSE InteiroOuZeroLegado(data.telefone),
     endereco |-> data.endereco, bairro |-> data.bairro, cidade |-> data.cidade,
     uf |-> data.uf,
     cep |-> IF p = "clientes" THEN InteiroOuZero(data.cep)
             ELSE InteiroOuZeroLegado(data.cep),
     genero |-> IF data.genero \in {"", "undefined"} THEN "null" ELSE data.genero]

\* the payload of the supplier page
PayloadFornecedor(data) ==
    [nome |-> data.nome, tipoPessoa |-> data.tipoPessoa,
     cpfcnpj |-> StripNonDigits(data.cpfcnpj), ie |-> TextoOuNulo(data.ie),
     email |-> data.email, telefone |-> InteiroOuZero(data.telefone),
     endereco |-> data.endereco, bairro |-> data.bairro, cidade |-> data.cidade,
     uf |-> data.uf, cep |-> InteiroOuZero(data.cep),
     tipoFornecedor |-> TextoOuNulo(data.tipoFornecedor)]

\* the payload page p builds from formData (iso: the converted admission date)
Payload(p, data, iso) ==
    CASE p \in {"clientes", "clientesLegado"} -> PayloadCliente(p, data)
      [] p = "fornecedores"                   -> PayloadFornecedor(data)
      [] p = "funcionarios"                   -> PayloadFuncionario(data, iso)
      [] p = "funcionariosLegado"             -> PayloadFuncionarioLegado(data, iso)
      [] OTHER                                -> data

\* the outcomes of the date conversion of page p
ResultadosData(p, data) ==
    IF p \in {"funcionarios", "funcionariosLegado"} THEN DataISOResultados(data.dataAdmissao)
    ELSE { Agora }

(***************************************************************************)
(* The pages as a state machine                                            *)
(***************************************************************************)
SemPedido == [kind |-> "none", method |-> "", payload |-> <<>>]

\* no submit has run yet
SemSubmissao == [nenhuma |-> TRUE]

PedidoFetch == [kind |-> "fetch", method |-> "GET", payload |-> <<>>]

SemToast == [tipo |-> "none", message |-> ""]

ToastErro(message) == [tipo |-> "error", message |-> message]

ToastSucesso(message) == [tipo |-> "success", message |-> message]

isEditing == editId # 0

\* the errors a request can fail with: no response, a response with the
\* backend's message, a response without one, an expired session, not found
ErrosBackend ==
    { [temResposta |-> FALSE, status |-> 0, message |-> ""],
      [temResposta |-> TRUE, status |-> 400, message |-> "CPF/CNPJ já cadastrado"],
      [temResposta |-> TRUE, status |-> 500, message |-> ""],
      [temResposta |-> TRUE, status |-> 401, message |-> ""],
      [temResposta |-> TRUE, status |-> 404, message |-> ""] }

\* `Erro ao ${isEditing ? "atualizar" : "cadastrar"} ...`
MensagemGenerica(p, editing) ==
    CASE p \in {"clientes", "clientesLegado"} ->
            IF editing THEN "Erro ao atualizar cliente" ELSE "Erro ao cadastrar cliente"
      [] p = "fornecedores" ->
            IF editing THEN "Erro ao atualizar fornecedor" ELSE "Erro ao cadastrar fornecedor"
      [] p \in {"funcionarios", "funcionariosLegado"} ->
            IF editing THEN "Erro ao atualizar funcionário"
            ELSE "Erro ao cadastrar funcionário"
      [] OTHER ->
            IF editing THEN "Erro ao atualizar produto" ELSE "Erro ao cadastrar produto"

\* the toast of the catch block of handleSubmit
MensagemErroSalvar(p, editing, err) ==
    IF p = "produtos"
    THEN IF err.temResposta /\ err.status = 401
         THEN "Sessão expirada. Faça login novamente."
         ELSE MensagemGenerica(p, editing)
    ELSE IF err.temResposta /\ err.message # "" THEN err.message
         ELSE MensagemGenerica(p, editing)

MensagemSucesso(p, editing) ==
    CASE p \in {"clientes", "clientesLegado"} ->
            IF editing THEN "Cliente atualizado com sucesso!"
            ELSE "Cliente cadastrado com sucesso!"
      [] p = "fornecedores" ->
            IF editing THEN "Fornecedor atualizado com sucesso!"
            ELSE "Fornecedor cadastrado com sucesso!"
      [] p \in {"funcionarios", "funcionariosLegado"} ->
            IF editing THEN "Funcionário atualizado com sucesso!"
            ELSE "Funcionário cadastrado com sucesso!"
      [] OTHER ->
            IF editing THEN "Produto atualizado com sucesso!"
            ELSE "Produto cadastrado com sucesso!"

MensagemErroCarregar(p) ==
    CASE p \in {"clientes", "clientesLegado"}         -> "Erro ao carregar dados do cliente"
      [] p = "fornecedores"                           -> "Erro ao carregar dados do fornecedor"
      [] p \in {"funcionarios", "funcionariosLegado"} -> "Erro ao carregar dados do funcionário"
      [] OTHER                                        -> "Erro ao carregar produto"

\* api.put(`/.../${id}`, payload) when editing, api.post("/...", payload) otherwise
PedidoSalvar(payload) ==
    [kind |-> "save", method |-> IF isEditing THEN "PUT" ELSE "POST", payload |-> payload]

Init ==
    /\ SemLista
    /\ arg = <<>>
    /\ ret = [fn |-> "none", value |-> FALSE, via |-> "none"]
    /\ page \in Pages
    /\ editId \in {0} \cup Ids
    /\ formData = FormDataInicial(page)
    /\ errors = SemErros
    /\ toast = SemToast
    /\ isSaving = FALSE
    /\ isLoading = (editId # 0)
    /\ issues = <<>>
    /\ pending = IF editId # 0 THEN PedidoFetch ELSE SemPedido
    /\ route = "form"
    /\ edits = 0
    /\ logged = FALSE
    /\ submitted = SemSubmissao

\* the fetch effect: the response arrives and fills the form
FetchOk ==
    /\ route = "form"
    /\ pending.kind = "fetch"
    /\ \E r \in Armazenados(page) :
          /\ r.id = editId
          /\ formData' = FormDataDoRegistro(page, r)
    /\ isLoading' = FALSE
    /\ pending' = SemPedido
    /\ UNCHANGED <<listaVars, logged, submitted, arg, ret, page, editId, errors, toast, isSaving, issues, route, edits>>

\* the fetch effect: the request fails
FetchFail(err) ==
    /\ route = "form"
    /\ pending.kind = "fetch"
    /\ toast' = ToastErro(
          IF page # "produtos" THEN MensagemErroCarregar(page)
          ELSE IF err.temResposta /\ err.status = 401
               THEN "Sessão expirada. Faça login novamente."
          ELSE IF err.temResposta /\ err.status = 404 THEN "Produto não encontrado"
          ELSE MensagemErroCarregar(page))
    /\ route' = IF page # "produtos" \/ (err.temResposta /\ err.status = 404)
                THEN RotaLista(page) ELSE route
    /\ isLoading' = FALSE
    /\ pending' = SemPedido
    /\ UNCHANGED <<listaVars, logged, submitted, arg, ret, page, editId, formData, errors, isSaving, issues, edits>>

PodeEditar ==
    /\ route = "form"
    /\ ~isLoading
    /\ edits < MaxEdits

\* handleInputChange(field, value)
HandleInputChange(field, value) ==
    /\ PodeEditar
    /\ field \in CamposEditaveis(page)
    /\ value \in AmostrasTexto(field)
    /\ ~(page = "clientesLegado" /\ field = "genero" /\ value = "undefined")
    /\ value # formData[field]
    /\ formData' = [formData EXCEPT ![field] = value]
    /\ errors' = IF field \in DOMAIN errors THEN SemCampo(errors, field) ELSE errors
    /\ edits' = edits + 1
    /\ UNCHANGED <<listaVars, logged, submitted, arg, ret, page, editId, toast, isSaving, isLoading, issues, pending, route>>

\* formatarDataParaInput(value)
formatarDataParaInput(value) ==
    LET apenasNumeros == StripNonDigits(value)
        n == Len(apenasNumeros)
    IN  IF n <= 2 THEN apenasNumeros
        ELSE IF n <= 4 THEN SubSeq(apenasNumeros, 1, 2) \o <<"/">> \o SubSeq(apenasNumeros, 3, n)
        ELSE SubSeq(apenasNumeros, 1, 2) \o <<"/">> \o SubSeq(apenasNumeros, 3, 4)
             \o <<"/">> \o SubSeq(apenasNumeros, 5, IF n < 8 THEN n ELSE 8)

\* handleDataChange(value)
HandleDataChange(value) ==
    /\ PodeEditar
    /\ page \in {"funcionarios", "funcionariosLegado"}
    /\ value \in AmostrasDataDigitada
    /\ formatarDataParaInput(value) # formData.dataAdmissao
    /\ formData' = [formData EXCEPT !.dataAdmissao = formatarDataParaInput(value)]
    /\ errors' = IF "dataAdmissao" \in DOMAIN errors THEN SemCampo(errors, "dataAdmissao")
                 ELSE errors
    /\ edits' = edits + 1
    /\ UNCHANGED <<listaVars, logged, submitted, arg, ret, page, editId, toast, isSaving, isLoading, issues, pending, route>>

\* handleChange(e) of the product page
HandleChange(name, value) ==
    /\ PodeEditar
    /\ page = "produtos"
    /\ name \in {"nome", "descricao", "precoCusto", "precoVenda"}
    /\ value \in (IF name \in {"precoCusto", "precoVenda"} THEN AmostrasPreco
                  ELSE AmostrasTexto(name))
    /\ LET novo == IF name \in {"precoCusto", "precoVenda"} THEN OuZero(parseFloat(value))
                   ELSE value
       IN  /\ novo # formData[name]
           /\ formData' = [formData EXCEPT ![name] = novo]
    /\ errors' = IF name \in DOMAIN errors THEN SemCampo(errors, name) ELSE errors
    /\ edits' = edits + 1
    /\ UNCHANGED <<listaVars, logged, submitted, arg, ret, page, editId, toast, isSaving, isLoading, issues, pending, route>>

\* a submit that goes on after a failed validation
SubmitRecusa_Ignorada(iss) == FALSE

\* if (!result.success) { ...; return }: the submit stops at a failed validation
SubmitRecusa(iss) == iss # <<>>

\* the listings the duplicate check can receive (checkResponse.data.content || [])
Listagens ==
    { <<>>, <<PessoaFisica>>, <<PessoaJuridica, PessoaIncompleta>>,
      <<PessoaIncompleta, PessoaFisica, PessoaJuridica>> }

\* a search that compares the stored identifier as it is stored
CpfExistente_SemLimpar(lista, cpfCnpjLimpo) ==
    \E k \in 1..Len(lista) :
        /\ ~(isEditing /\ lista[k].id = editId)
        /\ lista[k].cpfCnpj = cpfCnpjLimpo

\* clientes.find(...): is there another customer with the same cleaned identifier
CpfExistente(lista, cpfCnpjLimpo) ==
    \E k \in 1..Len(lista) :
        /\ ~(isEditing /\ lista[k].id = editId)
        /\ StripNonDigits(lista[k].cpfCnpj) = cpfCnpjLimpo

\* handleSubmit, up to its first await
\* a submit button that is disabled only while the record loads
SubmitDesabilitado_SoCarregando == isLoading

\* disabled={isSaving} (disabled={isSubmitting || isLoadingProduto})
SubmitDesabilitado == isSaving \/ isLoading

HandleSubmit ==
    /\ route = "form"
    /\ ~SubmitDesabilitado
    /\ submitted' = formData
    /\ LET iss == Validar(page, formData)
       IN  /\ issues' = iss
           /\ IF SubmitRecusa(iss)
              THEN /\ errors' = IF page \in PaginasZod THEN FieldErrors(iss, SemErros)
                                ELSE errors
                   /\ toast' = IF page = "produtos" THEN toast
                               ELSE ToastErro(iss[1].message)
                   /\ UNCHANGED <<isSaving, pending>>
              ELSE /\ errors' = SemErros
                   /\ \E iso \in ResultadosData(page, formData) :
                        IF iso.tipo = "RangeError"
                        THEN /\ toast' = ToastErro(MensagemGenerica(page, isEditing))
                             /\ UNCHANGED <<isSaving, pending>>
                        ELSE /\ isSaving' = TRUE
                             /\ toast' = toast
                             /\ pending' =
                                  IF page = "clientes"
                                  THEN [kind |-> "check", method |-> "GET",
                                        payload |-> Payload(page, formData, iso)]
                                  ELSE PedidoSalvar(Payload(page, formData, iso))
    /\ UNCHANGED <<listaVars, logged, arg, ret, page, editId, formData, isLoading, route, edits>>

\* a duplicate that is reported and then saved all the same
PedidoAposVerificacao_SempreSalva(existe, payload) == PedidoSalvar(payload)

\* if (cpfExistente) { ...; return } and, otherwise, the api.put / api.post
\* that follows the check
PedidoAposVerificacao(existe, payload) ==
    IF existe THEN SemPedido ELSE PedidoSalvar(payload)

\* setErrors(prev => ({ ...prev, cpfcnpj: message }))
ErrosComCpfCnpj(prev, message) ==
    [f \in DOMAIN prev \cup {"cpfcnpj"} |-> IF f = "cpfcnpj" THEN message ELSE prev[f]]

\* the duplicate check of the customer page resolves with a listing
CheckOk(lista) ==
    /\ route = "form"
    /\ pending.kind = "check"
    /\ LET existe == CpfExistente(lista, pending.payload.cpfcnpj)
           label  == IF pending.payload.tipoPessoa = "FISICA" THEN "CPF" ELSE "CNPJ"
       IN  /\ pending' = PedidoAposVerificacao(existe, pending.payload)
           /\ IF existe
              THEN /\ toast' = ToastErro(IF label = "CPF"
                                         THEN "Este CPF já está cadastrado no sistema"
                                         ELSE "Este CNPJ já está cadastrado no sistema")
                   /\ errors' = ErrosComCpfCnpj(errors,
                                    IF label = "CPF" THEN "Este CPF já está cadastrado"
                                    ELSE "Este CNPJ já está cadastrado")
                   /\ isSaving' = FALSE
              ELSE UNCHANGED <<toast, errors, isSaving>>
    /\ UNCHANGED <<listaVars, logged, submitted, arg, ret, page, editId, formData, isLoading, issues, route, edits>>

\* a failed duplicate check that is shown and stops the submit
CheckFail_Bloqueia ==
    /\ route = "form"
    /\ pending.kind = "check"
    /\ logged' = TRUE
    /\ toast' = ToastErro("Erro ao verificar CPF/CNPJ")
    /\ isSaving' = FALSE
    /\ pending' = SemPedido
    /\ UNCHANGED <<listaVars, submitted, arg, ret, page, editId, formData, errors, isLoading,
                   issues, route, edits>>

\* the duplicate check fails: the error is logged and the submit goes on
CheckFail ==
    /\ route = "form"
    /\ pending.kind = "check"
    /\ logged' = TRUE
    /\ pending' = PedidoSalvar(pending.payload)
    /\ UNCHANGED <<listaVars, submitted, arg, ret, page, editId, formData, errors, toast, isSaving, isLoading,
                   issues, route, edits>>

\* the create/update request succeeds
SaveOk ==
    /\ route = "form"
    /\ pending.kind = "save"
    /\ toast' = ToastSucesso(MensagemSucesso(page, isEditing))
    /\ route' = RotaLista(page)
    /\ isSaving' = FALSE
    /\ pending' = SemPedido
    /\ UNCHANGED <<listaVars, logged, submitted, arg, ret, page, editId, formData, errors, isLoading, issues, edits>>

\* a failed save whose handler has no finally block
SaveFail_SemFinally(err) ==
    /\ route = "form"
    /\ pending.kind = "save"
    /\ toast' = ToastErro(MensagemErroSalvar(page, isEditing, err))
    /\ pending' = SemPedido
    /\ UNCHANGED <<listaVars, logged, submitted, arg, ret, page, editId, formData, errors, isSaving,
                   isLoading, issues, route, edits>>

\* the create/update request fails
SaveFail(err) ==
    /\ route = "form"
    /\ pending.kind = "save"
    /\ toast' = ToastErro(MensagemErroSalvar(page, isEditing, err))
    /\ isSaving' = FALSE
    /\ pending' = SemPedido
    /\ UNCHANGED <<listaVars, logged, submitted, arg, ret, page, editId, formData, errors, isLoading, issues, route, edits>>

\* the back button: router.push to the list
Voltar ==
    /\ route = "form"
    /\ ~isLoading
    /\ route' = RotaLista(page)
    /\ UNCHANGED <<listaVars, logged, submitted, arg, ret, page, editId, formData, errors, toast, isSaving, isLoading,
                   issues, pending, edits>>

Next ==
    \/ FetchOk
    \/ \E err \in ErrosBackend : FetchFail(err)
    \/ \E field \in TodosCampos :
          \E value \in AmostrasTexto(field) : HandleInputChange(field, value)
    \/ \E value \in AmostrasDataDigitada : HandleDataChange(value)
    \/ \E name \in {"nome", "descricao"} :
          \E value \in AmostrasTexto(name) : HandleChange(name, value)
    \/ \E name \in {"precoCusto", "precoVenda"} :
          \E value \in AmostrasPreco : HandleChange(name, value)
    \/ HandleSubmit
    \/ \E lista \in Listagens : CheckOk(lista)
    \/ CheckFail
    \/ SaveOk
    \/ \E err \in ErrosBackend : SaveFail(err)
    \/ Voltar

Spec == Init /\ [][Next]_vars

(***************************************************************************)
(* Checksum harness: the validators applied to inputs from bounded sets    *)
(***************************************************************************)
\* nine-digit bases: the reference, bases whose first / second / both raw
\* remainders are 10, and repeated digits
CpfBases ==
    { <<"5", "2", "9", "9", "8", "2", "2", "4", "7">>,
      <<"1", "2", "3", "4", "5", "6", "7", "8", "9">>,
      <<"0", "0", "0", "0", "0", "0", "0", "1", "8">>,
      <<"0", "0", "0", "0", "0", "0", "2", "8", "1">>,
      <<"0", "0", "0", "0", "0", "0", "0", "0", "0">>,
      <<"1", "1", "1", "1", "1", "1", "1", "1", "1">>,
      <<"9", "9", "9", "9", "9", "9", "9", "9", "9">> }

\* twelve-digit bases: the reference, bases whose remainders are 0 or 1 (check
\* digit 0) in the first / second pass, and repeated digits
CnpjBases ==
    { <<"1", "1", "4", "4", "4", "7", "7", "7", "0", "0", "0", "1">>,
      <<"0", "0", "0", "0", "0", "0", "0", "0", "0", "0", "0", "6">>,
      <<"0", "0", "0", "0", "0", "0", "0", "0", "0", "0", "1", "9">>,
      <<"0", "0", "0", "0", "0", "0", "0", "0", "0", "0", "9", "3">>,
      <<"0", "0", "0", "0", "0", "0", "0", "0", "0", "2", "8", "1">>,
      <<"0", "0", "0", "0", "0", "0", "0", "0", "0", "0", "0", "0">>,
      <<"1", "1", "1", "1", "1", "1", "1", "1", "1", "1", "1", "1">> }

\* every ending of every base
CpfCandidatos == { b \o <<x, y>> : b \in CpfBases, x \in Digits, y \in Digits }
CnpjCandidatos == { b \o <<x, y>> : b \in CnpjBases, x \in Digits, y \in Digits }

\* the prefixes of the two references, masked and not (lengths 0..18)
Prefixos ==
    { SubSeq(r, 1, k) :
        r \in {CpfReferencia, MascaraCPF(CpfReferencia),
               CnpjReferencia, MascaraCNPJ(CnpjReferencia)},
        k \in 0..11 }
    \cup { SubSeq(MascaraCNPJ(CnpjReferencia), 1, k) : k \in 12..18 }
    \cup { SubSeq(r, 1, k) :
             r \in {MascaraCPF(CpfReferencia), CnpjReferencia}, k \in 12..14 }

\* the ten repeated-digit strings of each length
Repetidos == { Repetir(d, n) : d \in Digits, n \in {11, 14} }

\* the inputs of the harness: digit strings, masked strings, strings of every
\* length from 0 to 18
Entradas ==
    CpfCandidatos \cup CnpjCandidatos \cup Prefixos \cup Repetidos
    \cup { MascaraCPF(c) : c \in CpfCandidatos }
    \cup { MascaraCNPJ(c) : c \in CnpjCandidatos }
    \cup { r \o <<d>> : r \in {CpfReferencia, CnpjReferencia}, d \in Digits }

NenhumaChamada == [fn |-> "none", value |-> FALSE, via |-> "none"]

\* the position of the last digit of s (0 when s has no digit)
RECURSIVE UltimoDigito(_, _)
UltimoDigito(s, k) ==
    IF k = 0 THEN 0 ELSE IF s[k] \in Digits THEN k ELSE UltimoDigito(s, k - 1)

\* no page is mounted in the harness
SemPagina ==
    /\ SemLista
    /\ page = "none"
    /\ editId = 0
    /\ formData = <<>>
    /\ errors = SemErros
    /\ toast = SemToast
    /\ isSaving = FALSE
    /\ isLoading = FALSE
    /\ issues = <<>>
    /\ pending = SemPedido
    /\ route = "none"
    /\ edits = 0
    /\ logged = FALSE
    /\ submitted = SemSubmissao

InitChecksum ==
    /\ arg \in Entradas
    /\ ret = NenhumaChamada
    /\ SemPagina

\* validarCPF(arg)
ChamarValidarCPF ==
    /\ ret' = [fn |-> "validarCPF", value |-> validarCPF(arg), via |-> "entrada"]
    /\ UNCHANGED <<listaVars, arg, formVars>>

\* validarCNPJ(arg)
ChamarValidarCNPJ ==
    /\ ret' = [fn |-> "validarCNPJ", value |-> validarCNPJ(arg), via |-> "entrada"]
    /\ UNCHANGED <<listaVars, arg, formVars>>

\* one digit of a reference value is changed; the result is a fresh input
AlterarDigito(i, d) ==
    /\ arg \in {CpfReferencia, CnpjReferencia}
    /\ i \in 1..Len(arg)
    /\ arg[i] # d
    /\ arg' = [arg EXCEPT ![i] = d]
    /\ ret' = NenhumaChamada
    /\ UNCHANGED <<formVars, listaVars>>

\* the last digit of an accepted CPF is replaced and the result validated
TrocarUltimoDigito(d) ==
    /\ ret.fn = "validarCPF"
    /\ ret.value
    /\ LET k == UltimoDigito(arg, Len(arg))
       IN  /\ k > 0
           /\ arg[k] # d
           /\ arg' = [arg EXCEPT ![k] = d]
    /\ ret' = [fn |-> "validarCPF", value |-> validarCPF(arg'), via |-> "ultimoDigitoTrocado"]
    /\ UNCHANGED <<formVars, listaVars>>

NextChecksum ==
    \/ ChamarValidarCPF
    \/ ChamarValidarCNPJ
    \/ \E i \in 1..14, d \in Digits : AlterarDigito(i, d)
    \/ \E d \in Digits : TrocarUltimoDigito(d)

SpecChecksum == InitChecksum /\ [][NextChecksum]_vars

(***************************************************************************)
(* Properties of the check-digit validators (checked under SpecChecksum)   *)
(***************************************************************************)
\* sum over i of digit i of s times pesos[i], for the first Len(pesos) digits
RECURSIVE SomaPonderada(_, _, _)
SomaPonderada(s, pesos, k) ==
    IF k = 0 THEN 0
    ELSE ParseDigit(s[k]) * pesos[k] + SomaPonderada(s, pesos, k - 1)

SoDigitos(s) == \A i \in 1..Len(s) : s[i] \in Digits

UmDigitoRepetido(s) == \A i \in 1..Len(s) : s[i] = s[1]

PesosCpf1 == <<10, 9, 8, 7, 6, 5, 4, 3, 2>>
PesosCpf2 == <<11, 10, 9, 8, 7, 6, 5, 4, 3, 2>>

\* ((weighted sum) * 10) mod 11, before the remainder 10 is replaced
RestoBruto(s, pesos) == (SomaPonderada(s, pesos, Len(pesos)) * 10) % 11

DigitoCpf(s, pesos) ==
    IF RestoBruto(s, pesos) = 10 THEN 0 ELSE RestoBruto(s, pesos)

PesosCnpj1 == <<5, 4, 3, 2, 9, 8, 7, 6, 5, 4, 3, 2>>
PesosCnpj2 == <<6, 5, 4, 3, 2, 9, 8, 7, 6, 5, 4, 3, 2>>

Modulo11(s, pesos) == SomaPonderada(s, pesos, Len(pesos)) % 11

DigitoCnpj(s, pesos) ==
    IF Modulo11(s, pesos) < 2 THEN 0 ELSE 11 - Modulo11(s, pesos)

\* the number of positions at which two strings of the same length differ
Distancia(s, t) == Cardinality({ i \in 1..Len(s) : s[i] # t[i] })

\* C1: for an 11-digit string that is not one digit repeated, validarCPF
\* returns true exactly when digit 9 is r1 and digit 10 is r2, the two
\* (weighted sum * 10) mod 11 remainders with 10 replaced by 0.
C1_CpfCheckDigits ==
    (ret.fn = "validarCPF" /\ Len(arg) = 11 /\ SoDigitos(arg) /\ ~UmDigitoRepetido(arg))
        => (ret.value <=> (/\ ParseDigit(arg[10]) = DigitoCpf(arg, PesosCpf1)
                           /\ ParseDigit(arg[11]) = DigitoCpf(arg, PesosCpf2)))

\* an accepted 11-digit string whose first raw remainder is 10
C1_Witness ==
    /\ ret.fn = "validarCPF"
    /\ ret.value
    /\ Len(arg) = 11 /\ SoDigitos(arg) /\ ~UmDigitoRepetido(arg)
    /\ RestoBruto(arg, PesosCpf1) = 10
    /\ arg[10] = "0"

\* C2: for a 14-digit string that is not one digit repeated, validarCNPJ
\* returns true exactly when digit 12 is c1 and digit 13 is c2, computed with
\* the weights 5,4,3,2,9,...,2 and 6,5,4,3,2,9,...,2, each check digit being 0
\* when (weighted sum mod 11) < 2 and 11 minus it otherwise.
C2_CnpjCheckDigits ==
    (ret.fn = "validarCNPJ" /\ Len(arg) = 14 /\ SoDigitos(arg) /\ ~UmDigitoRepetido(arg))
        => (ret.value <=> (/\ ParseDigit(arg[13]) = DigitoCnpj(arg, PesosCnpj1)
                           /\ ParseDigit(arg[14]) = DigitoCnpj(arg, PesosCnpj2)))

\* an accepted 14-digit string whose two sums are 1 mod 11 (check digits 0)
C2_Witness ==
    /\ ret.fn = "validarCNPJ"
    /\ ret.value
    /\ Len(arg) = 14 /\ SoDigitos(arg) /\ ~UmDigitoRepetido(arg)
    /\ Modulo11(arg, PesosCnpj1) = 1
    /\ Modulo11(arg, PesosCnpj2) = 1

\* C5 as stated: validarCPF returns false for every string whose length is not
\* 11 and validarCNPJ for every string whose length is not 14, punctuation
\* included.
C5_Original ==
    /\ (ret.fn = "validarCPF" /\ Len(arg) # 11) => ~ret.value
    /\ (ret.fn = "validarCNPJ" /\ Len(arg) # 14) => ~ret.value

\* C5 amended: validarCPF returns false for every string that does not hold
\* exactly 11 digit characters, and validarCNPJ for every string that does not
\* hold exactly 14, whatever other characters the string has.
C5_DigitCount ==
    /\ (ret.fn = "validarCPF" /\ Len(StripNonDigits(arg)) # 11) => ~ret.value
    /\ (ret.fn = "validarCNPJ" /\ Len(StripNonDigits(arg)) # 14) => ~ret.value

\* a rejected string of 12 digits whose first 11 digits are a valid CPF
C5_Witness ==
    /\ ret.fn = "validarCPF"
    /\ ~ret.value
    /\ Len(arg) = 12 /\ SoDigitos(arg)
    /\ SubSeq(arg, 1, 11) = CpfReferencia

\* C6: validarCPF returns false for the ten 11-digit strings of one repeated
\* digit and validarCNPJ for the ten 14-digit ones, also when the two check
\* digits match the computation.
C6_RepeatedDigitsRejected ==
    /\ (ret.fn = "validarCPF" /\ Len(arg) = 11 /\ SoDigitos(arg) /\ UmDigitoRepetido(arg))
            => ~ret.value
    /\ (ret.fn = "validarCNPJ" /\ Len(arg) = 14 /\ SoDigitos(arg) /\ UmDigitoRepetido(arg))
            => ~ret.value

\* the all-zero CNPJ, whose check digits match, has been rejected
C6_Witness ==
    /\ ret.fn = "validarCNPJ"
    /\ ~ret.value
    /\ arg = Repetir("0", 14)
    /\ ParseDigit(arg[13]) = DigitoCnpj(arg, PesosCnpj1)
    /\ ParseDigit(arg[14]) = DigitoCnpj(arg, PesosCnpj2)

\* C7: validarCPF accepts 52998224725 and rejects 52998224726, and an
\* accepted identifier whose last digit is replaced by a different digit is
\* rejected.
C7_LastDigitCorrupted ==
    /\ (ret.fn = "validarCPF" /\ arg = CpfReferencia) => ret.value
    /\ (ret.fn = "validarCPF" /\ arg = [CpfReferencia EXCEPT ![11] = "6"]) => ~ret.value
    /\ ret.via = "ultimoDigitoTrocado" => ~ret.value

\* the last digit of an accepted masked identifier has been replaced
C7_Witness ==
    /\ ret.via = "ultimoDigitoTrocado"
    /\ ~ret.value
    /\ Len(arg) = 14
    /\ SubSeq(arg, 1, 13) = SubSeq(MascaraCPF(CpfReferencia), 1, 13)

\* C8: validarCNPJ accepts 11444777000161 and rejects every 14-digit string
\* that differs from it at exactly one position.
C8_SingleDigitAltered ==
    ret.fn = "validarCNPJ" =>
        /\ arg = CnpjReferencia => ret.value
        /\ (Len(arg) = 14 /\ SoDigitos(arg) /\ Distancia(arg, CnpjReferencia) = 1)
                => ~ret.value

\* a string that differs from the reference at its first digit was rejected
C8_Witness ==
    /\ ret.fn = "validarCNPJ"
    /\ ~ret.value
    /\ Len(arg) = 14 /\ SoDigitos(arg)
    /\ Distancia(arg, CnpjReferencia) = 1
    /\ arg[1] # CnpjReferencia[1]

(***************************************************************************)
(* Properties of the schemas and of handleSubmit (checked under Spec)      *)
(***************************************************************************)
TemIssueEm(iss, path) == \E i \in 1..Len(iss) : iss[i].path = path

Submeteu == submitted # SemSubmissao

\* the field-level rules of the customer and supplier schemas all pass
RegrasDeCampoPassam(p, d) ==
    /\ d.nome # Vazio
    /\ d.tipoPessoa \in {"FISICA", "JURIDICA"}
    /\ d.cpfcnpj # Vazio
    /\ Len(d.uf) <= 2
    /\ p = "clientes" => d.genero \in {"MASCULINO", "FEMININO", "NAO_INFORMAR"}
    /\ p = "fornecedores" => d.tipoFornecedor # Vazio

\* the identifier satisfies the rule of the person kind
IdentificadorDoTipo(d) ==
    LET limpo == StripNonDigits(d.cpfcnpj)
    IN  \/ d.tipoPessoa = "FISICA" /\ Len(limpo) = 11 /\ validarCPF(limpo)
        \/ d.tipoPessoa = "JURIDICA" /\ Len(limpo) = 14 /\ validarCNPJ(limpo)

\* C3: for a customer or supplier record whose field-level rules all pass,
\* validation yields an issue on cpfcnpj exactly when the cleaned identifier
\* fails the rule of the person kind (FISICA: 11 digits accepted by validarCPF,
\* JURIDICA: 14 digits accepted by validarCNPJ).
C3_IdentifierByPersonKind ==
    (page \in {"clientes", "fornecedores"} /\ Submeteu /\ RegrasDeCampoPassam(page, submitted))
        => (TemIssueEm(issues, "cpfcnpj") <=> ~IdentificadorDoTipo(submitted))

\* a valid CNPJ submitted under FISICA was rejected on cpfcnpj
C3_Witness ==
    /\ page = "clientes"
    /\ Submeteu
    /\ RegrasDeCampoPassam(page, submitted)
    /\ submitted.tipoPessoa = "FISICA"
    /\ StripNonDigits(submitted.cpfcnpj) = CnpjReferencia
    /\ TemIssueEm(issues, "cpfcnpj")

\* C4: in every form, a create/update request is in flight only for a submit
\* whose validation produced an empty issue list; a submit with a non-empty
\* list sends none.
C4_NoRequestWhenInvalid ==
    /\ pending.kind = "save" => (Submeteu /\ issues = <<>>)
    /\ (Submeteu /\ issues # <<>>) => pending.kind \notin {"check", "save"}

\* a submit was refused and nothing was sent
C4_Witness ==
    /\ Submeteu
    /\ issues # <<>>
    /\ pending = SemPedido
    /\ ~isSaving

\* C9: an employee record passes the identifier rule only when its cleaned
\* identifier has 11 digits and is accepted by validarCPF, whatever person kind
\* the stored record has, and every employee create/update payload carries
\* the person kind FISICA.
C9_EmployeeIndividualOnly ==
    page \in {"funcionarios", "funcionariosLegado"} =>
        /\ (Submeteu /\ issues = <<>>) =>
              /\ Len(StripNonDigits(submitted.cpfcnpj)) = 11
              /\ validarCPF(StripNonDigits(submitted.cpfcnpj))
        /\ pending.kind = "save" => pending.payload.tipoPessoa = "FISICA"

\* C10: for a product with non-empty name and description and two strictly
\* positive prices, validation yields exactly one issue, on precoVenda, when
\* precoVenda < precoCusto, and no issue otherwise (equal prices pass).
C10_PriceOrdering ==
    (/\ page = "produtos"
     /\ Submeteu
     /\ submitted.nome # Vazio
     /\ submitted.descricao # Vazio
     /\ submitted.precoCusto > 0
     /\ submitted.precoVenda > 0)
        => IF submitted.precoVenda < submitted.precoCusto
           THEN Len(issues) = 1 /\ issues[1].path = "precoVenda"
           ELSE issues = <<>>

\* cost 10.00 and sale 9.99 were submitted and gave the one issue
C10_Witness ==
    /\ page = "produtos"
    /\ Submeteu
    /\ submitted.nome # Vazio
    /\ submitted.descricao # Vazio
    /\ submitted.precoCusto = 1000
    /\ submitted.precoVenda = 999
    /\ Len(issues) = 1
    /\ issues[1].path = "precoVenda"

(***************************************************************************)
(* Rule harness: funcionarioSchema applied to an employee record that is   *)
(* valid but for one field, which is drawn from a bounded set              *)
(***************************************************************************)
DiasAmostra == { <<"0", "0">>, <<"0", "1">>, <<"1", "5">>, <<"3", "1">>, <<"3", "2">> }
MesesAmostra == { <<"0", "0">>, <<"0", "1">>, <<"0", "2">>, <<"1", "2">>, <<"1", "3">> }
AnosAmostra == { <<"1", "8", "9", "9">>, <<"1", "9", "0", "0">>, <<"2", "0", "2", "4">>, <<"2", "1", "0", "0">>, <<"2", "1", "0", "1">> }

\* strings of another shape than dd/mm/yyyy
OutrasFormas ==
    { <<>>,
      <<"1", "/", "1", "/", "2", "0", "2", "4">>,
      <<"1", "5", "-", "0", "3", "-", "2", "0", "2", "4">>,
      <<"1", "5", "/", "0", "3", "/", "2", "4">>,
      <<"1", "5", "/", "0", "3", "/", "2", "0", "2", "4", "5">>,
      <<"a", "b", "/", "c", "d", "/", "e", "f", "g", "h">>,
      <<"1", "5", "0", "3">>,
      <<"1", "5", "/", "0", "3", "/", "2", "0", "2", "4", " ">>,
      <<" ", "1", "5", "/", "0", "3", "/", "2", "0", "2", "4">>,
      <<"2", "0", "2", "4", "/", "0", "3", "/", "1", "5">>,
      <<"1", "5", "/", "3", "/", "2", "0", "2", "4">>,
      <<"1", "5", "0", "3", "2", "0", "2", "4">> }

EntradasData ==
    { d \o <<"/">> \o m \o <<"/">> \o a : d \in DiasAmostra, m \in MesesAmostra, a \in AnosAmostra }
        \cup OutrasFormas

\* bound: the length of the salary strings made from AlfabetoSalario
MaxSalarioLen == 3

AlfabetoSalario == {"0", "1", "5", "-", ".", "a"}

SalariosLongos ==
    { <<"2", "5", "0", "0", ".", "5", "0">>,
      <<"0", ".", "0", "0", "1">>,
      <<"-", "0", ".", "0", "1">>,
      <<"0", ".", "0", "0">>,
      <<"2", "5", "0", "0", ",", "5", "0">>,
      <<"0", ",", "5", "0">>,
      <<"1", "0", ".", "5">>,
      <<"-", "2", "5", "0", "0">> }

EntradasSalario ==
    UNION { [1..n -> AlfabetoSalario] : n \in 0..MaxSalarioLen } \cup SalariosLongos

\* an employee form that passes funcionarioSchema
FuncionarioValido ==
    [nome |-> TxtAna, cpfcnpj |-> CpfMascarado, email |-> Vazio, telefone |-> Vazio,
     endereco |-> Vazio, bairro |-> Vazio, cidade |-> Vazio, uf |-> Vazio, cep |-> Vazio,
     dataAdmissao |-> <<"1", "5", "/", "0", "3", "/", "2", "0", "2", "4">>,
     cargo |-> TxtCargo, salario |-> <<"2", "5", "0", "0", ".", "5", "0">>]

InitRegras ==
    /\ arg \in EntradasData \cup EntradasSalario
    /\ ret = NenhumaChamada
    /\ SemPagina

\* funcionarioSchema.safeParse of the record with dataAdmissao = arg
ChamarDataAdmissao ==
    /\ arg \in EntradasData
    /\ ret' = [fn |-> "dataAdmissao",
               value |-> safeParse(funcionarioSchema(
                            [FuncionarioValido EXCEPT !.dataAdmissao = arg])).issues,
               via |-> "entrada"]
    /\ UNCHANGED <<listaVars, arg, formVars>>

\* funcionarioSchema.safeParse of the record with salario = arg
ChamarSalario ==
    /\ arg \in EntradasSalario
    /\ ret' = [fn |-> "salario",
               value |-> safeParse(funcionarioSchema(
                            [FuncionarioValido EXCEPT !.salario = arg])).issues,
               via |-> "entrada"]
    /\ UNCHANGED <<listaVars, arg, formVars>>

NextRegras ==
    \/ ChamarDataAdmissao
    \/ ChamarSalario

SpecRegras == InitRegras /\ [][NextRegras]_vars

(***************************************************************************)
(* Properties of the field rules (checked under SpecRegras)                *)
(***************************************************************************)
DoisDigitos(a, b) == ParseDigit(a) * 10 + ParseDigit(b)

\* two digits, slash, two digits, slash, four digits; day 1..31, month 1..12,
\* year 1900..2100
DataAceita(val) ==
    /\ Len(val) = 10
    /\ val[3] = "/"
    /\ val[6] = "/"
    /\ \A i \in {1, 2, 4, 5, 7, 8, 9, 10} : val[i] \in Digits
    /\ DoisDigitos(val[1], val[2]) \in 1..31
    /\ DoisDigitos(val[4], val[5]) \in 1..12
    /\ DoisDigitos(val[7], val[8]) * 100 + DoisDigitos(val[9], val[10]) \in 1900..2100

Data31Fev == <<"3", "1", "/", "0", "2", "/", "2", "0", "2", "4">>

\* C11: the admission-date rule accepts a string exactly when it is dd/mm/yyyy
\* with day in 1..31, month in 1..12 and year in 1900..2100 (no per-month or
\* leap-year check); every other string gets an issue on dataAdmissao.
C11_AdmissionDateRule ==
    ret.fn = "dataAdmissao" =>
        IF DataAceita(arg) THEN ret.value = <<>>
        ELSE TemIssueEm(ret.value, "dataAdmissao")

\* 31/02/2024 went through the rule and was accepted
C11_Witness ==
    /\ ret.fn = "dataAdmissao"
    /\ arg = Data31Fev
    /\ ret.value = <<>>

\* the decimal numeral a string starts with (sign, digits, fraction) is
\* strictly positive
SalarioPositivo(s) ==
    LET neg  == s # <<>> /\ Head(s) = "-"
        body == IF s # <<>> /\ Head(s) \in {"-", "+"} THEN Tail(s) ELSE s
        int  == PrefixoDigitos(body)
        rest == SubSeq(body, Len(int) + 1, Len(body))
        frac == IF rest # <<>> /\ Head(rest) = "." THEN PrefixoDigitos(Tail(rest)) ELSE <<>>
    IN  /\ ~neg
        /\ \E i \in 1..Len(int \o frac) : (int \o frac)[i] \in Digits \ {"0"}

\* C12: the salary rule accepts the salary string exactly when it is non-empty
\* and the decimal number read from it is strictly greater than zero; an
\* empty, zero, negative or non-numeric salary gets an issue on salario and
\* the submit is refused.
C12_SalaryRule ==
    ret.fn = "salario" =>
        IF arg # <<>> /\ SalarioPositivo(arg) THEN ret.value = <<>>
        ELSE TemIssueEm(ret.value, "salario") /\ SubmitRecusa(ret.value)

\* a zero salary went through the rule and was refused on salario
C12_Witness ==
    /\ ret.fn = "salario"
    /\ arg = <<"0", ".", "0">>
    /\ TemIssueEm(ret.value, "salario")

(***************************************************************************)
(* Properties of the issue list and of its display (checked under Spec)    *)
(***************************************************************************)
\* the required text fields of each entity
CamposObrigatorios(p) ==
    CASE p \in {"clientes", "clientesLegado"}         -> {"nome", "cpfcnpj"}
      [] p = "fornecedores"                           -> {"nome", "cpfcnpj", "tipoFornecedor"}
      [] p \in {"funcionarios", "funcionariosLegado"} ->
            {"nome", "cpfcnpj", "cargo", "dataAdmissao", "salario"}
      [] OTHER                                        -> {"nome", "descricao"}

\* the optional contact and address fields
CamposOpcionais == {"ie", "email", "telefone", "endereco", "bairro", "cidade", "uf", "cep"}

\* a well-formed value of an optional field
Preenchido(f) ==
    CASE f = "ie"       -> TxtIe
      [] f = "email"    -> TxtEmail
      [] f = "telefone" -> TxtTelefone
      [] f = "endereco" -> TxtRua
      [] f = "bairro"   -> TxtCentro
      [] f = "cidade"   -> TxtCidade
      [] f = "uf"       -> TxtSP
      [] OTHER          -> TxtCep

\* C13: in every form an empty required field yields an issue on that field's
\* path, and an empty optional field yields no issue on its path and does not
\* change whether the submit is refused.
C13_PresenceRules ==
    (Submeteu /\ page \in Pages) =>
        /\ \A f \in CamposObrigatorios(page) :
              submitted[f] = Vazio => TemIssueEm(issues, f)
        /\ page = "produtos" =>
              \A f \in {"precoCusto", "precoVenda"} :
                  submitted[f] = 0 => TemIssueEm(issues, f)
        /\ \A f \in CamposOpcionais \cap DOMAIN submitted :
              submitted[f] = Vazio =>
                  /\ ~TemIssueEm(issues, f)
                  /\ (issues = <<>>) <=>
                        (Validar(page, [submitted EXCEPT ![f] = Preenchido(f)]) = <<>>)

\* the message of the first issue of the list on path f
PrimeiraMensagem(iss, f) ==
    LET k == CHOOSE i \in 1..Len(iss) :
                 /\ iss[i].path = f
                 /\ \A j \in 1..(i - 1) : iss[j].path # f
    IN  iss[k].message

\* C14: after a refused submit the field-error mapping holds, for a field with
\* issues, the message of that field's first issue in the ordered issue list.
C14_FirstIssueKept ==
    (page \in PaginasZod /\ Submeteu /\ issues # <<>>) =>
        \A f \in DOMAIN errors : errors[f] = PrimeiraMensagem(issues, f)

\* the fields whose <Field> carries data-invalid={!!errors.field}
CamposMarcaveis(p) ==
    CASE p = "clientes"     -> {"nome", "tipoPessoa", "cpfcnpj", "email", "uf"}
      [] p = "fornecedores" -> {"nome", "tipoPessoa", "cpfcnpj", "tipoFornecedor", "email"}
      [] p = "funcionarios" -> {"nome", "cpfcnpj", "cargo", "salario", "dataAdmissao", "email"}
      [] p = "produtos"     -> {"nome", "descricao", "precoCusto", "precoVenda"}
      [] OTHER              -> {}

\* the fields shown as invalid
Marcados == DOMAIN errors \cap CamposMarcaveis(page)

\* C15: whenever validation of a submitted form fails, in every form, the
\* notification shows the message of the first issue of the issue list and
\* every field of the field-error mapping is marked invalid.
C15_FirstIssueNotified ==
    (page \in Pages /\ Submeteu /\ issues # <<>>) =>
        /\ toast = ToastErro(issues[1].message)
        /\ DOMAIN errors \subseteq Marcados

\* the messages of the whole-record refinements
MensagensDeRefinamento ==
    { "CPF/CNPJ inválido", "CPF inválido",
      "Preço de venda não pode ser menor que o preço de custo" }

EhRefinamento(issue) == issue.message \in MensagensDeRefinamento

\* C16: the whole-record refinements run only after all field-level rules
\* pass: an issue list that holds a refinement issue holds no field-level
\* issue.
C16_RefinementsAfterFieldRules ==
    (page \in PaginasZod /\ Submeteu) =>
        \A i, j \in 1..Len(issues) :
            EhRefinamento(issues[i]) => EhRefinamento(issues[j])

\* the required fields the order is about, and the optional ones
CamposRequeridosDaOrdem == {"cargo", "salario", "dataAdmissao", "genero", "tipoFornecedor"}

\* C17: in any issue list an issue on a required field (employee role, salary,
\* admission date, customer gender) never comes after an issue on an optional
\* contact or address field such as the state code.
C17_RequiredBeforeOptional ==
    (page \in PaginasZod /\ Submeteu) =>
        \A i, j \in 1..Len(issues) :
            (issues[i].path \in CamposOpcionais /\ issues[j].path \in CamposRequeridosDaOrdem)
                => j < i

(***************************************************************************)
(* Properties of the duplicate check of the customer form (under Spec)     *)
(***************************************************************************)
ToastsDeDuplicado ==
    { ToastErro("Este CPF já está cadastrado no sistema"),
      ToastErro("Este CNPJ já está cadastrado no sistema") }

\* the listing holds a record, other than the one being edited, whose
\* identifier without non-digits is the submitted identifier without
\* non-digits
Duplicado(lista) ==
    \E k \in 1..Len(lista) :
        /\ StripNonDigits(lista[k].cpfCnpj) = StripNonDigits(submitted.cpfcnpj)
        /\ ~(editId # 0 /\ lista[k].id = editId)

\* C18: when the duplicate check of a customer submit resolves with a
\* listing, the duplicate error fires exactly when the listing holds a record
\* with the same cleaned identifier that is not the record being edited.
C18_DuplicateDetection ==
    [][\A lista \in Listagens :
          CheckOk(lista) =>
              (Duplicado(lista) <=> (toast' \in ToastsDeDuplicado /\ pending' = SemPedido))]_vars

\* a formatted CPF was submitted and refused as a duplicate of a stored one
C18_Witness ==
    /\ page = "clientes"
    /\ Submeteu
    /\ submitted.cpfcnpj = CpfMascarado
    /\ toast = ToastErro("Este CPF já está cadastrado no sistema")
    /\ pending = SemPedido
    /\ ~isSaving

\* C19: when the duplicate check finds a match the submit is aborted: the
\* error goes to cpfcnpj in the field-error mapping, the other field errors
\* stay as they are and no create/update request is sent; and a customer
\* create/update request is sent only by the step that ends a duplicate check.
C19_DuplicateAborts ==
    [][/\ (pending.kind = "check" /\ toast' \in ToastsDeDuplicado /\ toast' # toast) =>
             /\ DOMAIN errors' = DOMAIN errors \cup {"cpfcnpj"}
             /\ errors'.cpfcnpj \in {"Este CPF já está cadastrado", "Este CNPJ já está cadastrado"}
             /\ \A f \in DOMAIN errors \ {"cpfcnpj"} : errors'[f] = errors[f]
             /\ pending' = SemPedido
             /\ ~isSaving'
       /\ (page = "clientes" /\ pending'.kind = "save" /\ pending.kind # "save") =>
             pending.kind = "check"]_vars

\* a duplicate was found: the mapping holds the error on cpfcnpj and nothing
\* is in flight
C19_Witness ==
    /\ page = "clientes"
    /\ Submeteu
    /\ issues = <<>>
    /\ "cpfcnpj" \in DOMAIN errors
    /\ errors.cpfcnpj = "Este CNPJ já está cadastrado"
    /\ pending = SemPedido
    /\ ~isSaving

\* C20: when the duplicate-check query itself fails, no notification and no
\* field error is produced and the create/update request is sent with the
\* payload of the submit, as when no duplicate is found.
C20_CheckFailureSwallowed ==
    [][(pending.kind = "check" /\ logged' /\ ~logged) =>
          /\ toast' = toast
          /\ errors' = errors
          /\ isSaving /\ isSaving'
          /\ pending' = PedidoSalvar(pending.payload)]_vars

\* the check failed and the request of that submit is in flight
C20_Witness ==
    /\ page = "clientes"
    /\ logged
    /\ pending.kind = "save"
    /\ isSaving
    /\ toast = SemToast
    /\ errors = SemErros

(***************************************************************************)
(* Properties of the payload and of the save (checked under Spec)          *)
(***************************************************************************)
PaginasDePessoa ==
    { "clientes", "clientesLegado", "fornecedores", "funcionarios", "funcionariosLegado" }

\* a request of the submit is in flight
EmVoo(p) == p.kind \in {"check", "save"}

\* the integer formed by the digits of a text, 0 when it has none
InteiroDosDigitos(t) ==
    LET d == SelectSeq(t, LAMBDA c : c \in Digits)
    IN  IF d = <<>> THEN 0 ELSE ValorDecimal(d)

\* the number a salary text starts with, in hundredths, 0 when it starts with
\* none
SalarioEmCentavos(s) ==
    LET neg  == s # <<>> /\ Head(s) = "-"
        body == IF s # <<>> /\ Head(s) \in {"-", "+"} THEN Tail(s) ELSE s
        int  == PrefixoDigitos(body)
        rest == SubSeq(body, Len(int) + 1, Len(body))
        frac == IF rest # <<>> /\ Head(rest) = "." THEN PrefixoDigitos(Tail(rest)) ELSE <<>>
        cent == ValorDecimal(int) * 100 + ValorDecimal(SubSeq(frac \o <<"0", "0">>, 1, 2))
    IN  IF int = <<>> /\ frac = <<>> THEN 0 ELSE IF neg THEN 0 - cent ELSE cent

\* payload pl is the normalized form of the record d of page p
Normalizado(p, pl, d) ==
    /\ pl.cpfcnpj = SelectSeq(d.cpfcnpj, LAMBDA c : c \in Digits)
    /\ pl.telefone = InteiroDosDigitos(d.telefone)
    /\ pl.cep = InteiroDosDigitos(d.cep)
    /\ p \in {"funcionarios", "funcionariosLegado"} => pl.salario = SalarioEmCentavos(d.salario)

\* C21: every create/update payload of the customer, supplier and employee
\* forms has the identifier without its non-digits, phone and postal code as
\* the integer of their digits (0 without digits) and the salary as its parsed
\* number (0 when none is read); and a submit of the employee form whose
\* record passes validation sends such a payload.
C21_PayloadNormalized ==
    [][/\ (page \in PaginasDePessoa /\ EmVoo(pending')) =>
             Normalizado(page, pending'.payload, submitted')
       /\ (HandleSubmit /\ page = "funcionarios" /\ issues' = <<>>) =>
             pending'.kind = "save"]_vars

\* the optional text fields of the person forms
CamposOpcionaisDeTexto == {"ie", "email", "endereco", "bairro", "cidade", "uf"}

\* C22: in a payload in flight, every optional text field the record leaves
\* empty is the null marker, never the empty string, and an unselected gender
\* is null.
C22_EmptyOptionalIsNull ==
    (page \in PaginasDePessoa /\ EmVoo(pending)) =>
        /\ \A f \in CamposOpcionaisDeTexto \cap DOMAIN submitted :
              submitted[f] = Vazio => pending.payload[f] = Nulo
        /\ (page \in {"clientes", "clientesLegado"} /\ submitted.genero = "") =>
              pending.payload.genero = "null"

\* C23: when the create/update request of a form fails, the notification is
\* the backend's message when it gave one and the form's generic message
\* otherwise.
C23_BackendMessageVerbatim ==
    [][\A err \in ErrosBackend :
          SaveFail(err) =>
              toast' = ToastErro(IF err.temResposta /\ err.message # ""
                                 THEN err.message
                                 ELSE MensagemGenerica(page, isEditing))]_vars

\* C24: while a request of a submit is in flight (the duplicate check or the
\* create/update request), the form's saving flag is set and no further
\* submit can be triggered, so a second create/update request never starts
\* while one is in flight.
C24_NoSubmitWhileInFlight ==
    [][(route = "form" /\ EmVoo(pending)) => (isSaving /\ ~HandleSubmit)]_vars

C24_Witness ==
    /\ route = "form"
    /\ page = "clientes"
    /\ pending.kind = "save"
    /\ isSaving
    /\ logged

(***************************************************************************)
(* Repeated validation runs: the validation part of handleSubmit applied   *)
(* to sample records in any order, with the result of the first run of     *)
(* each record kept for comparison                                         *)
(***************************************************************************)
MaxRuns == 2

\* the records put through validation: the empty form and the stored records
\* as the form shows them
Registros(p) ==
    {FormDataInicial(p)} \cup { FormDataDoRegistro(p, r) : r \in Armazenados(p) }

SemExecucoes == [d \in {} |-> [issues |-> <<>>, errors |-> SemErros, runs |-> 0]]

InitValidacao ==
    /\ SemLista
    /\ arg = <<>>
    /\ ret = SemExecucoes
    /\ page \in Pages
    /\ editId = 0
    /\ formData \in Registros(page)
    /\ errors = SemErros
    /\ toast = SemToast
    /\ isSaving = FALSE
    /\ isLoading = FALSE
    /\ issues = <<>>
    /\ pending = SemPedido
    /\ route = "form"
    /\ edits = 0
    /\ logged = FALSE
    /\ submitted = SemSubmissao

\* another record is in the form
OutroRegistro(d) ==
    /\ d # formData
    /\ formData' = d
    /\ UNCHANGED <<listaVars, arg, ret, page, editId, errors, toast, isSaving, isLoading, issues,
                   pending, route, edits, logged, submitted>>

\* setErrors({}); safeParse(formData); the field errors and the toast of a
\* refusal
ExecutarValidacao ==
    LET iss  == Validar(page, formData)
        errs == IF SubmitRecusa(iss) /\ page \in PaginasZod
                THEN FieldErrors(iss, SemErros) ELSE SemErros
    IN  /\ submitted' = formData
        /\ issues' = iss
        /\ errors' = errs
        /\ toast' = IF SubmitRecusa(iss) /\ page # "produtos"
                    THEN ToastErro(iss[1].message) ELSE toast
        /\ ret' = IF formData \in DOMAIN ret
                  THEN [ret EXCEPT ![formData].runs =
                           IF @ < MaxRuns THEN @ + 1 ELSE @]
                  ELSE [d \in DOMAIN ret \cup {formData} |->
                           IF d = formData
                           THEN [issues |-> iss, errors |-> errs, runs |-> 1]
                           ELSE ret[d]]
        /\ UNCHANGED <<listaVars, arg, page, editId, formData, isSaving, isLoading, pending, route,
                       edits, logged>>

NextValidacao ==
    \/ \E d \in Registros(page) : OutroRegistro(d)
    \/ ExecutarValidacao

SpecValidacao == InitValidacao /\ [][NextValidacao]_vars

Resposta ==
    \/ FetchOk
    \/ \E err \in ErrosBackend : FetchFail(err)
    \/ \E lista \in Listagens : CheckOk(lista)
    \/ CheckFail
    \/ SaveOk
    \/ \E err \in ErrosBackend : SaveFail(err)

\* the edits followed while requests settle
MaxEditsRespostas == 1

InitRespostas ==
    /\ SemLista
    /\ arg = <<>>
    /\ ret = [fn |-> "none", value |-> FALSE, via |-> "none"]
    /\ page \in Pages
    /\ editId \in {0} \cup Ids
    /\ formData = FormDataInicial(page)
    /\ errors = SemErros
    /\ toast = SemToast
    /\ isSaving = FALSE
    /\ isLoading = (editId # 0)
    /\ issues = <<>>
    /\ pending = IF editId # 0 THEN PedidoFetch ELSE SemPedido
    /\ route = "form"
    /\ edits = MaxEdits - MaxEditsRespostas
    /\ logged = FALSE
    /\ submitted = SemSubmissao

SpecRespostas == InitRespostas /\ [][Next]_vars /\ WF_vars(Resposta)

\* C26: once a submit has passed validation and set the saving flag, the flag
\* is false again after its requests have settled (save succeeded, save
\* failed, duplicate found, or check failed and save settled), and it is false
\* whenever no request of a submit is in flight.
C26_SavingFlagCleared ==
    /\ [](~EmVoo(pending) => ~isSaving)
    /\ (isSaving /\ route = "form") ~> (~isSaving \/ route # "form")

C26_Witness ==
    /\ Submeteu
    /\ issues = <<>>
    /\ ~isSaving
    /\ route = "form"
    /\ toast \in ToastsDeDuplicado

(***************************************************************************)
(* The session (login form, useAuth, the request interceptor) and the      *)
(* paginated list pages (funcionarios, produtos, usuarios/clientes: the    *)
(* three pages and their tables have the same code)                        *)
(***************************************************************************)
MaxPaginas == 2   \* the backend reports 0..MaxPaginas pages
MaxFetches == 2   \* requests in flight at once

Chaves == {"token", "usuarioId", "username", "funcionarioId"}

Hooks == {"anterior", "atual"}

\* the entries the hook reads at initialisation and removes at logout
ChavesDoHook(h) ==
    IF h = "anterior" THEN {"token", "usuarioId", "username"} ELSE Chaves

\* a hook that looks at the token alone
LerSessao_SoToken(h, store) ==
    IF "token" \in store THEN [nulo |-> FALSE, lidas |-> {"token"}] ELSE UserNulo

\* the initializer of useState<User | null>
LerSessao(h, store) ==
    IF ChavesDoHook(h) \subseteq store
    THEN [nulo |-> FALSE, lidas |-> ChavesDoHook(h)]
    ELSE UserNulo

isAuthenticated == ~user.nulo

\* api.interceptors.request: the header is set when the store has a token
Pedido(kind, pagina) ==
    [kind |-> kind, pagina |-> pagina, authorization |-> "token" \in localStorage,
     autenticado |-> isAuthenticated]

Remover(seq, i) == SubSeq(seq, 1, i - 1) \o SubSeq(seq, i + 1, Len(seq))

EmVooDoTipo(kind) == { i \in DOMAIN fetches : fetches[i].kind = kind }

\* the rows and totals are rendered: if (loading || !isAuthenticated) return "Carregando..."
Renderiza == route = "lista" /\ isAuthenticated

formPinned ==
    <<arg, ret, page, editId, formData, errors, isSaving, issues, pending, edits,
      logged, submitted>>

InitLista ==
    /\ arg = <<>>
    /\ ret = [fn |-> "none", value |-> FALSE, via |-> "none"]
    /\ page = "lista"
    /\ editId = 0
    /\ formData = <<>>
    /\ errors = SemErros
    /\ toast = SemToast
    /\ isSaving = FALSE
    /\ isLoading = FALSE
    /\ issues = <<>>
    /\ pending = SemPedido
    /\ route = "/"
    /\ edits = 0
    /\ logged = FALSE
    /\ submitted = SemSubmissao
    /\ currentPage = 0
    /\ funcionarios = SemLinhas
    /\ totalPages = 0
    /\ totalElements = 0
    /\ error = ""
    /\ fetches = <<>>
    /\ localStorage \in SUBSET Chaves
    /\ user = UserNulo
    /\ hook \in Hooks
    /\ efeitos = FALSE

\* LoginForm.handleSubmit up to its await: api.post("/api/auth/login")
LoginSubmit ==
    /\ route = "/"
    /\ EmVooDoTipo("login") = {}
    /\ fetches' = Append(fetches, Pedido("login", 0))
    /\ error' = ""
    /\ UNCHANGED <<formPinned, toast, isLoading, route, currentPage, funcionarios, totalPages,
                   totalElements, localStorage, user, hook, efeitos>>

\* the login succeeds: the four entries are stored, router.push("/dashboard")
LoginOk ==
    /\ route = "/"
    /\ \E i \in EmVooDoTipo("login") : fetches' = Remover(fetches, i)
    /\ localStorage' = Chaves
    /\ route' = "/dashboard"
    /\ user' = LerSessao(hook, localStorage')
    /\ UNCHANGED <<formPinned, toast, isLoading, currentPage, funcionarios, totalPages,
                   totalElements, error, hook, efeitos>>

\* the login fails: setError(message || "Erro ao fazer login. Tente novamente.")
LoginFail ==
    /\ route = "/"
    /\ \E i \in EmVooDoTipo("login") : fetches' = Remover(fetches, i)
    /\ error' = "Erro ao fazer login. Tente novamente."
    /\ UNCHANGED <<formPinned, toast, isLoading, route, currentPage, funcionarios, totalPages,
                   totalElements, localStorage, user, hook, efeitos>>

\* the list page is opened: useAuth() and the useState initial values
AbrirLista ==
    /\ route \in {"/", "/dashboard"}
    /\ fetches = <<>>
    /\ route' = "lista"
    /\ user' = LerSessao(hook, localStorage)
    /\ currentPage' = 0
    /\ funcionarios' = SemLinhas
    /\ totalPages' = 0
    /\ totalElements' = 0
    /\ isLoading' = TRUE
    /\ error' = ""
    /\ efeitos' = TRUE
    /\ UNCHANGED <<formPinned, toast, fetches, localStorage, hook>>

\* an effect that fetches whether or not the session exists
PodeBuscar_SemGuarda == TRUE

\* if (isAuthenticated) fetchFuncionarios(page)
PodeBuscar == isAuthenticated

\* the two effects after the first render: the redirect and the first fetch
ExecutarEfeitos ==
    /\ route = "lista"
    /\ efeitos
    /\ efeitos' = FALSE
    /\ route' = IF ~isAuthenticated THEN "/" ELSE route
    /\ fetches' = IF PodeBuscar THEN Append(fetches, Pedido("fetch", currentPage))
                  ELSE fetches
    /\ UNCHANGED <<formPinned, toast, isLoading, currentPage, funcionarios, totalPages,
                   totalElements, error, localStorage, user, hook>>

\* the pages the pagination controls can ask for: first and previous unless
\* currentPage === 0, next and last unless currentPage >= totalPages - 1, and
\* the items 0..totalPages-1 of the select
PaginasAlcancaveis ==
    (IF currentPage = 0 THEN {} ELSE {0, currentPage - 1})
      \cup (IF currentPage >= totalPages - 1 THEN {} ELSE {currentPage + 1, totalPages - 1})
      \cup 0 .. (totalPages - 1)

\* onPageChange = setPage; the effect on [page] starts fetchFuncionarios(page)
OnPageChange(n) ==
    /\ Renderiza
    /\ ~efeitos
    /\ n \in PaginasAlcancaveis
    /\ n # currentPage
    /\ Len(fetches) < MaxFetches
    /\ currentPage' = n
    /\ isLoading' = TRUE
    /\ error' = ""
    /\ fetches' = Append(fetches, Pedido("fetch", n))
    /\ UNCHANGED <<formPinned, toast, route, funcionarios, totalPages, totalElements,
                   localStorage, user, hook, efeitos>>

\* a row's status toggle is clicked: api.put(endpoint); the handler keeps the
\* onRefresh of the render it was created in
ToggleStatus ==
    /\ Renderiza
    /\ ~efeitos
    /\ ~isLoading
    /\ ~funcionarios.vazia
    /\ Len(fetches) < MaxFetches
    /\ fetches' = Append(fetches, Pedido("toggle", currentPage))
    /\ UNCHANGED <<formPinned, toast, isLoading, route, currentPage, funcionarios, totalPages,
                   totalElements, error, localStorage, user, hook, efeitos>>

\* the toggle succeeds: onRefresh() = fetchFuncionarios(page) of that render
ToggleOk(i) ==
    /\ route = "lista"
    /\ i \in EmVooDoTipo("toggle")
    /\ fetches' = Append(Remover(fetches, i), Pedido("fetch", fetches[i].pagina))
    /\ toast' = ToastSucesso("Funcionário demitido com sucesso!")
    /\ isLoading' = TRUE
    /\ error' = ""
    /\ UNCHANGED <<formPinned, route, currentPage, funcionarios, totalPages,
                   totalElements, localStorage, user, hook, efeitos>>

\* the toggle fails: toast.error, no refresh
ToggleFail(i) ==
    /\ route = "lista"
    /\ i \in EmVooDoTipo("toggle")
    /\ fetches' = Remover(fetches, i)
    /\ toast' = ToastErro("Erro ao processar solicitação")
    /\ UNCHANGED <<formPinned, isLoading, route, currentPage, funcionarios, totalPages,
                   totalElements, error, localStorage, user, hook, efeitos>>

\* a page fetch is answered, whichever of those in flight: the rows of the page
\* it asked for and the totals the backend has at that moment
ListaOk(i, tp) ==
    /\ route = "lista"
    /\ i \in EmVooDoTipo("fetch")
    /\ funcionarios' = [pagina |-> fetches[i].pagina, vazia |-> fetches[i].pagina >= tp]
    /\ totalPages' = tp
    /\ totalElements' = 10 * tp
    /\ isLoading' = FALSE
    /\ fetches' = Remover(fetches, i)
    /\ UNCHANGED <<formPinned, toast, route, currentPage, error, localStorage, user, hook, efeitos>>

\* a page fetch fails: setError
ListaFail(i, err) ==
    /\ route = "lista"
    /\ i \in EmVooDoTipo("fetch")
    /\ error' = IF err.temResposta /\ err.status = 401
                THEN "Sessão expirada. Faça login novamente."
                ELSE IF err.temResposta /\ err.message # "" THEN err.message
                ELSE "Erro ao carregar funcionários"
    /\ isLoading' = FALSE
    /\ fetches' = Remover(fetches, i)
    /\ UNCHANGED <<formPinned, toast, route, currentPage, funcionarios, totalPages,
                   totalElements, localStorage, user, hook, efeitos>>

\* logout(): the hook's entries are removed, setUser(null), router.push("/");
\* the page is unmounted and the answers to its requests are dropped
Logout ==
    /\ Renderiza
    /\ ~efeitos
    /\ localStorage' = localStorage \ ChavesDoHook(hook)
    /\ user' = UserNulo
    /\ route' = "/"
    /\ fetches' = <<>>
    /\ UNCHANGED <<formPinned, toast, isLoading, currentPage, funcionarios, totalPages,
                   totalElements, error, hook, efeitos>>

NextLista ==
    \/ LoginSubmit
    \/ LoginOk
    \/ LoginFail
    \/ AbrirLista
    \/ ExecutarEfeitos
    \/ \E n \in 0 .. MaxPaginas : OnPageChange(n)
    \/ ToggleStatus
    \/ \E i \in 1 .. MaxFetches : ToggleOk(i)
    \/ \E i \in 1 .. MaxFetches : ToggleFail(i)
    \/ \E i \in 1 .. MaxFetches : \E tp \in 0 .. MaxPaginas : ListaOk(i, tp)
    \/ \E i \in 1 .. MaxFetches : \E err \in ErrosBackend : ListaFail(i, err)
    \/ Logout

SpecLista == InitLista /\ [][NextLista]_vars

\* C27: once no page fetch is in flight, the rows shown are those fetched for
\* the selected page (totalPages and totalElements come from the same answer),
\* whatever the order in which the answers arrived.
C27_RowsOfSelectedPage ==
    (Renderiza /\ ~efeitos /\ fetches = <<>> /\ error = "" /\ funcionarios # SemLinhas) =>
        funcionarios.pagina = currentPage

\* C28: on a rendered list page the page index stays within
\* 0 .. max(totalPages - 1, 0), after navigation, status toggles and refreshes
\* in which the backend reports fewer pages.
C28_PageIndexInRange ==
    (Renderiza /\ ~efeitos) =>
        /\ 0 <= currentPage
        /\ currentPage <= (IF totalPages - 1 > 0 THEN totalPages - 1 ELSE 0)

\* C29: a logout leaves none of the four session entries in the store and
\* isAuthenticated false, and a request issued while the store has no token
\* carries no Authorization header.
C29_LogoutClearsSession ==
    [][/\ Logout => (localStorage' \cap Chaves = {} /\ user'.nulo)
       /\ \A i \in DOMAIN fetches' :
             "token" \notin localStorage' => ~fetches'[i].authorization]_vars

====
